---- MODULE Spec2Model ----
(***************************************************************************)
(* Model of the scheduler's coordination and execution plane:              *)
(*   - RedisCoordinator.tick (leader / subleader locks, epoch counter),    *)
(*   - the JobRun store and the row-locked transitions on it,              *)
(*   - WorkerService (StartJob, CancelJob, child supervision),             *)
(*   - the leader's main loop (leader tick, dispatcher, reconciler).       *)
(*                                                                         *)
(* Worker ids are the integers of Workers (their order is the string       *)
(* order of the ids); 0 stands for the empty string / a vacant key.        *)
(* Time is an integer clock; a run's timestamps are clock values and -1    *)
(* stands for NULL.                                                        *)
(***************************************************************************)
EXTENDS Integers, Sequences, FiniteSets, TLC

Workers == {1, 2}
None == 0
Null == -1

\* ---- bounds of the model
MaxEpoch == 2
MaxTime == 2
MaxRuns == 2
MaxWrites == 6
MaxInflight == 1
MaxPoolInflight == 2
MaxSeconds == 400
MaxReloads == 2             \* ConfigReloadRequest rows
MaxBatch == 3               \* rows of a store the assign loop is tried on
MaxBatchWrites == 8         \* saves such a store has seen, summed over its rows
BatchNow == 2               \* the clock of that store

VARIABLES
    \* the key-value store
    leaderLock,     \* scheduler:leader:lock, holder or None
    subLock,        \* scheduler:subleader:lock, holder or None
    epochKey,       \* scheduler:leader:epoch (0: key absent)
    hb,             \* workers whose heartbeat key has not expired
    \* RedisCoordinator objects and the status they publish
    co,             \* co[w]: _is_leader, _leader_epoch, _is_subleader
    ck,             \* ck[w]: position and locals of the tick in progress
    status,         \* status[w]: latest TickStatus / runtime_state.cluster_epoch
    issued,         \* history: leader epochs handed out by INCR so far
    \* the relational store
    now,            \* the clock (timezone.now / time.time)
    runs,           \* scheduler_job_runs: runs[id] is the row of JobRun id
    defs,           \* the enabled TIME JobDefinition rows: their schedules
    lastWrite,      \* history: the rows saved by the last step (what, who, which epoch)
    \* WorkerService objects
    rt,             \* rt[w]: runtime state and the latch of worker w
    resp,           \* history: the last StartJob rejected at the checks
    mat,            \* mat[l]: a leader tick between its lookups and its INSERTs
    sj,             \* sj[w]: StartJob handlers past the checks, not yet returned
    child,          \* child[w]: children spawned by w and their supervision routines
    reload          \* scheduler_config_reload_requests and the leaders' reload handlers

kvVars == <<leaderLock, subLock, epochKey, hb>>
coVars == <<co, ck, status, issued>>
storeVars == <<now, defs, reload, runs>>
rtVars == <<rt, sj, child>>
execVars == <<storeVars, rtVars, resp, mat>>

\* ======================================================================
\* Coordinator
\* ======================================================================
\* The history records before anything has been saved or answered, and a
\* leader tick outside its materialization loop
NoWrite == [op |-> "None", run |-> 0, by |-> None, epoch |-> Null]
MatIdle == [pc |-> "idle", miss |-> {}, absorbed |-> FALSE]
NoResp == [to |-> None, epoch |-> Null, result |-> "None"]


\* A step that saves no row
NoSave == UNCHANGED lastWrite

\* WorkerRuntimeState and the WorkerService latch after construction
SupIdle == [pc |-> "idle", timedOut |-> FALSE, exitZero |-> FALSE,
            cancelAtExit |-> FALSE, final |-> "None"]
RtInit == [detached |-> FALSE, draining |-> FALSE, load |-> 0, cur |-> None,
           proc |-> None, cancel |-> FALSE, sup |-> SupIdle]

CoInit == [isLeader |-> FALSE, leaderEpoch |-> None, isSub |-> FALSE]
CkIdle == [pc |-> "idle", sawVacant |-> FALSE]
StatusInit == [is_leader |-> FALSE, is_subleader |-> FALSE,
               leader_epoch |-> None, cluster_epoch |-> 0]

\* INCR scheduler:leader:epoch
IncrStuck(e) == e
Incr(e) == e + 1

\* _LUA_RENEW_LOCK: PEXPIRE only when the key's value is the caller's id
Renewed(lock, w) == lock = w

\* _LUA_RELEASE_LOCK: DEL only when the key's value is the caller's id
ReleasedAny(lock, w) == None
Released(lock, w) == IF lock = w THEN None ELSE lock

\* SET key value NX EX ttl
SetNx(lock, w) == IF lock = None THEN w ELSE lock

\* The configuration a tick works on: the keys, the coordinator's fields and
\* the tick's locals.
TickCfg(w) ==
    [pc |-> ck[w].pc, sawVacant |-> ck[w].sawVacant,
     L |-> leaderLock, S |-> subLock, E |-> epochKey, hb |-> hb,
     isLeader |-> co[w].isLeader, leaderEpoch |-> co[w].leaderEpoch,
     isSub |-> co[w].isSub, st |-> status[w], issued |-> issued]

\* After the subleader branch: only a subleader that saw the leader lock
\* vacant tries the leader lock.
AfterSubAny(s) == IF s.sawVacant THEN "acqL" ELSE "fin"
AfterSub(s) == IF s.isSub /\ s.sawVacant THEN "acqL" ELSE "fin"

\* One KV command of RedisCoordinator.tick and the statements up to the next.
TickStep(w, s) ==
    CASE s.pc = "getL" ->
           IF ~s.isLeader /\ s.L = w
           THEN [s EXCEPT !.sawVacant = (s.L = None), !.isLeader = TRUE, !.pc = "adopt"]
           ELSE [s EXCEPT !.sawVacant = (s.L = None), !.pc = "getS"]
      [] s.pc = "adopt" ->
           [s EXCEPT !.leaderEpoch = s.E, !.pc = "getS"]
      [] s.pc = "getS" ->
           LET sub == IF ~s.isLeader /\ ~s.isSub /\ s.S = w THEN TRUE ELSE s.isSub
           IN [s EXCEPT !.isSub = sub,
                        !.pc = IF s.isLeader THEN "renewL"
                               ELSE IF sub THEN "renewS" ELSE "acqS"]
      [] s.pc = "renewL" ->
           IF Renewed(s.L, w)
           THEN [s EXCEPT !.pc = "fin"]
           ELSE [s EXCEPT !.isLeader = FALSE, !.leaderEpoch = None, !.pc = "fin"]
      [] s.pc = "renewS" ->
           LET t == IF Renewed(s.S, w) THEN s ELSE [s EXCEPT !.isSub = FALSE]
           IN [t EXCEPT !.pc = AfterSub(t)]
      [] s.pc = "acqS" ->
           LET t == IF s.S = None
                    THEN [s EXCEPT !.S = SetNx(s.S, w), !.isSub = TRUE]
                    ELSE s
           IN [t EXCEPT !.pc = AfterSub(t)]
      [] s.pc = "acqL" ->
           IF s.L = None
           THEN [s EXCEPT !.L = SetNx(s.L, w), !.isLeader = TRUE, !.pc = "incr"]
           ELSE [s EXCEPT !.pc = "fin"]
      [] s.pc = "incr" ->
           [s EXCEPT !.E = Incr(s.E), !.leaderEpoch = Incr(s.E),
                     !.issued = @ \cup {Incr(s.E)},
                     !.isSub = FALSE, !.pc = "relS"]
      [] s.pc = "relS" ->
           [s EXCEPT !.S = Released(s.S, w), !.pc = "fin"]
      [] s.pc = "fin" ->
           [s EXCEPT !.st = [is_leader |-> s.isLeader,
                             is_subleader |-> s.isSub,
                             leader_epoch |-> IF s.isLeader THEN s.leaderEpoch ELSE None,
                             cluster_epoch |-> s.E],
                     !.sawVacant = FALSE, !.pc = "idle"]
      [] OTHER -> s

\* Writes a tick configuration back to the variables.
Install(w, t) ==
    /\ leaderLock' = t.L
    /\ subLock' = t.S
    /\ epochKey' = t.E
    /\ hb' = t.hb
    /\ co' = [co EXCEPT ![w] = [isLeader |-> t.isLeader,
                                leaderEpoch |-> t.leaderEpoch,
                                isSub |-> t.isSub]]
    /\ ck' = [ck EXCEPT ![w] = [pc |-> t.pc, sawVacant |-> t.sawVacant]]
    /\ status' = [status EXCEPT ![w] = t.st]
    /\ issued' = t.issued

\* _coordination_loop calls coordinator.tick: the heartbeat writes
TickBegin(w) ==
    /\ ck[w].pc = "idle"
    /\ hb' = hb \cup {w}
    /\ ck' = [ck EXCEPT ![w] = [pc |-> "getL", sawVacant |-> FALSE]]
    /\ UNCHANGED <<leaderLock, subLock, epochKey, co, status, issued, execVars>>
    /\ NoSave

\* The tick's next KV command
TickNext(w) ==
    /\ ck[w].pc \notin {"idle", "exited"}
    /\ (ck[w].pc = "acqL" /\ leaderLock = None) => epochKey < MaxEpoch
    /\ Install(w, TickStep(w, TickCfg(w)))
    /\ UNCHANGED execVars
    /\ NoSave

\* A KV command raises: tick() is left where it stands, the coordinator keeps
\* the fields it has set and _coordination_loop does not publish a status.
TickRaise(w) ==
    /\ ck[w].pc \notin {"idle", "exited"}
    /\ ck' = [ck EXCEPT ![w] = CkIdle]
    /\ UNCHANGED <<kvVars, co, status, issued, execVars>>
    /\ NoSave

\* TTL expiry of the keys
ExpireLeaderLock ==
    /\ leaderLock # None
    /\ leaderLock' = None
    /\ UNCHANGED <<subLock, epochKey, hb, coVars, execVars>>
    /\ NoSave

ExpireSubLock ==
    /\ subLock # None
    /\ subLock' = None
    /\ UNCHANGED <<leaderLock, epochKey, hb, coVars, execVars>>
    /\ NoSave

ExpireHeartbeat(w) ==
    /\ w \in hb
    /\ hb' = hb \ {w}
    /\ UNCHANGED <<leaderLock, subLock, epochKey, coVars, execVars>>
    /\ NoSave

\* The worker process is started again under the same worker_id: a new
\* RedisCoordinator, no status yet.
Restart(w) ==
    /\ co' = [co EXCEPT ![w] = CoInit]
    /\ ck' = [ck EXCEPT ![w] = CkIdle]
    /\ status' = [status EXCEPT ![w] = StatusInit]
    /\ UNCHANGED <<kvVars, issued, execVars>>
    /\ NoSave

\* The whole of RedisCoordinator.tick with no other KV client in between.
RECURSIVE TickRun(_, _)
TickRun(w, s0) ==
    CHOOSE r \in { IF s.pc = "idle" THEN s ELSE TickRun(w, TickStep(w, s)) : s \in {s0} } : TRUE

\* One pass of _coordination_loop: tick, publish latest_status and the
\* runtime's cluster_epoch.
Tick(w) ==
    /\ ck[w].pc = "idle"
    /\ (leaderLock = None) => epochKey < MaxEpoch
    /\ Install(w, TickRun(w, [TickCfg(w) EXCEPT !.hb = @ \cup {w}, !.pc = "getL"]))
    /\ UNCHANGED execVars
    /\ NoSave

\* ======================================================================
\* Store: JobRun rows and the transactions on them
\* ======================================================================

Terminal == {"SUCCEEDED", "FAILED", "CANCELED", "SKIPPED", "TIMED_OUT"}
States == {"PENDING", "ASSIGNED", "RUNNING", "ORPHANED"} \cup Terminal

\* ---- configuration, in clock units
AssignAhead == 1            \* assign_ahead_seconds
ReassignAfter == 1          \* reassign_assigned_after_seconds
ConfirmSeconds == 1         \* continuation_confirm_seconds
SkipLateAfter == 1          \* skip_late_runs_after_seconds
RebalanceMinFuture == 0     \* rebalance_assigned_min_future_seconds
RebalanceCooldown == 0      \* rebalance_assigned_cooldown_seconds
RebalanceMaxPerTick == 1    \* rebalance_assigned_max_per_tick

\* ---- default of assign_ahead_seconds, for the clock that counts seconds
AssignAheadSeconds == 60

\* ---- defaults of the weights
WeightLeader == 1
WeightSubleader == 2
WeightWorker == 3
RunningLoadWeight == 2

Max2(a, b) == IF a >= b THEN a ELSE b

\* No ConfigReloadRequest row, every main loop outside its reload block, and
\* the SchedulerSetting override of rebalance_assigned_max_per_tick
ReloadLocalsIdle == [pc |-> "idle", req |-> 0, epoch |-> Null, targets |-> {},
                     todo |-> {}, oks |-> {}]
ReloadIdle ==
    [reqs |-> <<>>, h |-> [w \in Workers |-> ReloadLocalsIdle],
     max_per_tick |-> RebalanceMaxPerTick]

\* The schedules of JobDefinition rows
EveryNMinutes(n) == [kind |-> "every_n_minutes", n |-> n]
Hourly(m) == [kind |-> "hourly", n |-> m]

\* ---- error_summary: a text, kept as its lines with their lengths in
\* characters; the empty text has no line.
SummaryLimit == 2000

OrphanedInactive == [text |-> "orphaned: assigned worker inactive", len |-> 34]
OrphanedDeadline == [text |-> "orphaned: confirming deadline exceeded", len |-> 38]
OrphanedMismatch ==
    [text |-> "orphaned: confirming deadline exceeded (worker status mismatch)",
     len |-> 63]
ConfirmingNoJob == [text |-> "confirming: worker reports no current job", len |-> 41]
SkippedLate == [text |-> "skipped: scheduled_for too old", len |-> 105]
RebalancedLine == [text |-> "rebalanced", len |-> 18]

\* len(text): the lines and the newlines between them
RECURSIVE SummaryChars(_)
SummaryChars(s) ==
    IF s = <<>> THEN 0
    ELSE IF Len(s) = 1 THEN s[1].len
    ELSE s[1].len + 1 + SummaryChars(Tail(s))

\* text[:n]
RECURSIVE Truncated(_, _)
Truncated(s, n) ==
    IF s = <<>> \/ n <= 0 THEN <<>>
    ELSE IF s[1].len >= n THEN <<[s[1] EXCEPT !.len = n]>>
    ELSE IF Len(s) = 1 \/ n = s[1].len + 1 THEN <<s[1]>>
    ELSE <<s[1]>> \o Truncated(Tail(s), n - s[1].len - 1)

\* (jr.error_summary + "\n" if jr.error_summary else "") + line
Traced(jr, line) == [jr EXCEPT !.error_summary = Append(@, line)]

\* The summary StartJob, _wait_and_finalize and CancelJob hand to
\* _jobrun_finish; the three texts that go with FAILED (exit code, log file,
\* subprocess) are one line here, with the length of the longest.
FinishSummary(final) ==
    IF final = "TIMED_OUT" THEN <<[text |-> "timed out", len |-> 9]>>
    ELSE IF final = "CANCELED" THEN <<[text |-> "canceled", len |-> 8]>>
    ELSE IF final = "SUCCEEDED" THEN <<>>
    ELSE <<[text |-> "failed", len |-> 40]>>

\* JobRun.objects.create(job_definition, scheduled_for, state=PENDING, attempt=0)
NewRun(jd, slot) ==
    [jd |-> jd, scheduled_for |-> slot, state |-> "PENDING", worker |-> None,
     assigned_at |-> Null, leader_epoch |-> Null, attempt |-> 0, version |-> 0,
     started_at |-> Null, cstate |-> "NONE", deadline |-> Null,
     error_summary |-> <<>>]

\* _schedule_matches_every_n_minutes
ScheduleMatchesEveryNMinutes(slot, n) == IF n <= 0 THEN FALSE ELSE slot % n = 0

\* _schedule_matches_slot, for the kinds that look at the minute only
ScheduleMatchesSlot(slot, schedule) ==
    IF schedule.kind = "every_n_minutes"
    THEN ScheduleMatchesEveryNMinutes(slot, schedule.n)
    ELSE IF schedule.kind = "hourly"
    THEN IF ~(0 <= schedule.n /\ schedule.n <= 59) THEN FALSE
         ELSE slot = schedule.n
    ELSE FALSE

\* sched_jobrun_unique_schedule: no row with this (job_definition, scheduled_for)
UniqueNone(rs, jd, slot) == TRUE
UniqueOk(rs, jd, slot) ==
    ~\E i \in DOMAIN rs : rs[i].jd = jd /\ rs[i].scheduled_for = slot

\* get_or_create's lookup
RunExists(rs, jd, slot) ==
    \E i \in DOMAIN rs : rs[i].jd = jd /\ rs[i].scheduled_for = slot

\* The INSERT of get_or_create: the row is added unless the constraint
\* raises IntegrityError, which _ensure_job_run absorbs.
InsertRun(rs, jd, slot) ==
    IF UniqueOk(rs, jd, slot) THEN Append(rs, NewRun(jd, slot)) ELSE rs

\* _ensure_job_run
EnsureJobRun(rs, jd, slot) ==
    IF RunExists(rs, jd, slot) THEN rs ELSE InsertRun(rs, jd, slot)

\* ---- _jobrun_mark_running
MarkRunningNoFence(jr, w, e) == jr.state = "ASSIGNED" /\ jr.worker = w
MarkRunningOk(jr, w, e) ==
    /\ jr.state = "ASSIGNED"
    /\ jr.worker = w
    /\ ~(jr.leader_epoch # Null /\ jr.leader_epoch > e)

MarkRunning(jr, attempt, t) ==
    [jr EXCEPT !.state = "RUNNING", !.started_at = t, !.attempt = attempt,
               !.version = @ + 1]

\* ---- _jobrun_finish
FinishAnyState(jr, w) == ~(jr.worker # None /\ jr.worker # w)
FinishAnyWorker(jr, w) == jr.state \notin Terminal
FinishOk(jr, w) ==
    /\ ~(jr.worker # None /\ jr.worker # w)
    /\ jr.state \notin Terminal

FinishNoBump(jr, final) == [jr EXCEPT !.state = final]
Finish(jr, final) ==
    [jr EXCEPT !.state = final, !.version = @ + 1,
               !.error_summary = Truncated(FinishSummary(final), SummaryLimit)]

\* ---- _mark_skipped_if_assigned
SkipOk(jr) == jr.state = "ASSIGNED" /\ jr.started_at = Null
SkipKeepState(jr) == [jr EXCEPT !.version = @ + 1]
Skip(jr) == [jr EXCEPT !.state = "SKIPPED", !.version = @ + 1]

\* ---- _mark_confirming_if_running and Phase B's first branch
ConfirmingOk(jr) == jr.state = "RUNNING" /\ jr.cstate # "CONFIRMING"
EnterConfirmingDueNow(jr, t) ==
    [jr EXCEPT !.cstate = "CONFIRMING", !.deadline = t, !.version = @ + 1]
EnterConfirming(jr, t) ==
    [jr EXCEPT !.cstate = "CONFIRMING",
               !.deadline = t + Max2(1, ConfirmSeconds),
               !.version = @ + 1]

\* ---- _orphan_if_confirming_deadline_exceeded and Phase B's second branch
DeadlineOrphanAnyTime(jr, t) == jr.state = "RUNNING" /\ jr.cstate = "CONFIRMING"
DeadlineOrphanOk(jr, t) ==
    /\ jr.state = "RUNNING"
    /\ jr.cstate = "CONFIRMING"
    /\ jr.deadline # Null
    /\ jr.deadline <= t

OrphanRunning(jr) ==
    [jr EXCEPT !.state = "ORPHANED", !.worker = None, !.assigned_at = Null,
               !.started_at = Null, !.cstate = "NONE", !.deadline = Null,
               !.version = @ + 1, !.attempt = @ + 1]

\* ---- Phase A: ASSIGNED, not started in time, worker inactive
OrphanAssignedSameAttempt(jr) ==
    [jr EXCEPT !.state = "ORPHANED", !.worker = None, !.assigned_at = Null,
               !.version = @ + 1]
OrphanAssigned(jr) ==
    [jr EXCEPT !.state = "ORPHANED", !.worker = None, !.assigned_at = Null,
               !.version = @ + 1, !.attempt = @ + 1]

PhaseA(rs, t, active) ==
    [i \in DOMAIN rs |->
        IF /\ rs[i].state = "ASSIGNED"
           /\ rs[i].assigned_at # Null
           /\ rs[i].assigned_at < t - Max2(0, Max2(1, ReassignAfter))
           /\ rs[i].worker # None
           /\ rs[i].worker \notin active
        THEN Traced(OrphanAssigned(rs[i]), OrphanedInactive)
        ELSE rs[i]]

\* ---- Phase B: RUNNING whose worker is missing
PhaseB(rs, t, active) ==
    [i \in DOMAIN rs |->
        IF rs[i].state = "RUNNING" /\ rs[i].worker # None
        THEN IF rs[i].cstate = "NONE"
             THEN IF rs[i].worker \in active THEN rs[i]
                  ELSE EnterConfirming(rs[i], t)
             ELSE IF DeadlineOrphanOk(rs[i], t)
                  THEN Traced(OrphanRunning(rs[i]), OrphanedDeadline)
                  ELSE rs[i]
        ELSE rs[i]]

\* ---- Phase C: materialize the slots of the window
RECURSIVE MaterializeSlots(_, _, _, _)
MaterializeSlots(rs, jd, slot, last) ==
    IF slot > last THEN rs
    ELSE MaterializeSlots(
            IF ScheduleMatchesSlot(slot, defs[jd])
            THEN EnsureJobRun(rs, jd, slot) ELSE rs,
            jd, slot + 1, last)

RECURSIVE Materialize(_, _, _)
Materialize(rs, jd, t) ==
    IF jd > Len(defs) THEN rs
    ELSE Materialize(MaterializeSlots(rs, jd, t, t + Max2(0, AssignAhead)),
                     jd + 1, t)

PhaseC(rs, t) == Materialize(rs, 1, t)

\* ---- the picker
Count(rs, st, w) ==
    Cardinality({i \in DOMAIN rs : rs[i].state = st /\ rs[i].worker = w})

AssignedCounts(rs) == [w \in Workers |-> Count(rs, "ASSIGNED", w)]
RunningCounts(rs) == [w \in Workers |-> Count(rs, "RUNNING", w)]

\* role_by_worker_id and _weight_for
WeightFor(w, kv) ==
    IF kv.L = w THEN Max2(1, WeightLeader)
    ELSE IF kv.S = w THEN Max2(1, WeightSubleader)
    ELSE Max2(1, WeightWorker)

\* _effective_load
EffectiveLoad(w, ac, rc) == ac[w] + rc[w] * Max2(1, RunningLoadWeight)

\* num(a)/den(a) < num(b)/den(b), or equal and a the smaller id
Better(a, b, ac, rc, kv) ==
    LET na == EffectiveLoad(a, ac, rc)
        nb == EffectiveLoad(b, ac, rc)
        da == WeightFor(a, kv)
        db == WeightFor(b, kv)
    IN \/ na * db < nb * da
       \/ na * db = nb * da /\ a < b

\* _pick_worker: the loop keeps the least worker of this total order, so its
\* result does not depend on the order of worker_ids.
PickWorker(active, ac, rc, kv) ==
    CHOOSE w \in active : \A v \in active \ {w} : Better(w, v, ac, rc, kv)

\* ---- Phase E: assign PENDING and ORPHANED runs of the window
AssignNobody(jr, w, t, e) ==
    [jr EXCEPT !.assigned_at = t, !.state = "ASSIGNED",
               !.leader_epoch = e, !.version = @ + 1]
Assign(jr, w, t, e) ==
    [jr EXCEPT !.worker = w, !.assigned_at = t, !.state = "ASSIGNED",
               !.leader_epoch = e, !.version = @ + 1]

\* order_by(key, "id"): the first id of a non-empty set of rows
FirstBy(rs, ids, key) ==
    CHOOSE i \in ids : \A j \in ids \ {i} :
        rs[i][key] < rs[j][key] \/ (rs[i][key] = rs[j][key] /\ i < j)

RECURSIVE AssignLoopStale(_, _, _, _, _)
AssignLoopStale(rs, todo, ac, rc, c) ==
    IF todo = {} THEN rs
    ELSE LET i == FirstBy(rs, todo, "scheduled_for")
             w == PickWorker(c.active, ac, rc, c.kv)
         IN AssignLoopStale([rs EXCEPT ![i] = Assign(rs[i], w, c.t, c.epoch)],
                            todo \ {i}, ac, rc, c)

RECURSIVE AssignLoop(_, _, _, _, _)
AssignLoop(rs, todo, ac, rc, c) ==
    IF todo = {} THEN rs
    ELSE LET i == FirstBy(rs, todo, "scheduled_for")
             w == PickWorker(c.active, ac, rc, c.kv)
         IN AssignLoop([rs EXCEPT ![i] = Assign(rs[i], w, c.t, c.epoch)],
                       todo \ {i}, [ac EXCEPT ![w] = @ + 1], rc, c)

\* ---- Phase D: rebalance ASSIGNED runs that have not started
RebalanceTo(jr, w, t, e) ==
    [jr EXCEPT !.worker = w, !.assigned_at = t, !.leader_epoch = e,
               !.version = @ + 1]

\* candidates[:max_per_tick]
RECURSIVE FirstN(_, _, _)
FirstN(rs, ids, n) ==
    IF ids = {} \/ n = 0 THEN {}
    ELSE LET i == FirstBy(rs, ids, "assigned_at")
         IN {i} \cup FirstN(rs, ids \ {i}, n - 1)

RebalanceCandidates(rs, t) ==
    LET all == {i \in DOMAIN rs :
                   /\ rs[i].state = "ASSIGNED"
                   /\ rs[i].started_at = Null
                   /\ rs[i].scheduled_for > t + Max2(0, RebalanceMinFuture)
                   /\ rs[i].worker # None}
        m == Max2(0, reload.max_per_tick)
    IN IF m > 0 THEN FirstN(rs, all, m) ELSE all

\* The loop over the candidates; the result is the rows and the live
\* assigned_counts.
RECURSIVE RebalanceLoop(_, _, _, _, _)
RebalanceLoop(rs, todo, ac, rc, c) ==
    IF todo = {} THEN [rs |-> rs, ac |-> ac]
    ELSE LET i == FirstBy(rs, todo, "assigned_at")
             cur == rs[i].worker
             ac1 == [ac EXCEPT ![cur] = Max2(0, @ - 1)]
             best == PickWorker(c.active, ac1, rc, c.kv)
         IN IF cur \notin c.active
               \/ (rs[i].assigned_at # Null
                   /\ rs[i].assigned_at > c.t - Max2(0, RebalanceCooldown))
            THEN RebalanceLoop(rs, todo \ {i}, ac, rc, c)
            ELSE IF best = cur
            THEN RebalanceLoop(rs, todo \ {i}, ac, rc, c)
            ELSE RebalanceLoop(
                    [rs EXCEPT ![i] = Traced(RebalanceTo(rs[i], best, c.t, c.epoch),
                                             RebalancedLine)],
                    todo \ {i}, [ac1 EXCEPT ![best] = @ + 1], rc, c)

PhaseD(rs, c) ==
    IF Cardinality(c.active) > 1
    THEN RebalanceLoop(rs, RebalanceCandidates(rs, c.t),
                       AssignedCounts(rs), RunningCounts(rs), c)
    ELSE [rs |-> rs, ac |-> AssignedCounts(rs)]

PhaseE(rs, ac, c) ==
    AssignLoop(rs,
               {i \in DOMAIN rs : /\ rs[i].state \in {"PENDING", "ORPHANED"}
                                  /\ rs[i].scheduled_for <= c.t + Max2(0, AssignAhead)},
               ac, RunningCounts(rs), c)

\* run_leader_tick_snapshot: the rows after the transaction
LeaderTickRows(rs, c) ==
    LET a == PhaseA(rs, c.t, c.active)
        b == PhaseB(a, c.t, c.active)
        m == PhaseC(b, c.t)
    IN IF c.active = {} THEN m
       ELSE LET d == PhaseD(m, c) IN PhaseE(d.rs, d.ac, c)

\* effective_epoch = status.leader_epoch or status.cluster_epoch or 0
EffectiveEpoch(st) ==
    IF st.leader_epoch # None THEN st.leader_epoch ELSE st.cluster_epoch

\* list_workers(...) with heartbeat_ttl_seconds > 0, and the lock holders
TickContext(l) ==
    [t |-> now, active |-> hb, kv |-> [L |-> leaderLock, S |-> subLock],
     epoch |-> EffectiveEpoch(status[l])]

\* The number of saves the rows have seen
RECURSIVE Writes(_)
Writes(rs) == IF rs = <<>> THEN 0 ELSE rs[1].version + Writes(Tail(rs))

\* The main loop's leader tick
LeaderTick(l) ==
    /\ status[l].is_leader
    /\ LET c == TickContext(l)
           rs == LeaderTickRows(runs, c)
       IN /\ rs # runs
          /\ Len(rs) <= MaxRuns
          /\ Writes(rs) <= MaxWrites
          /\ runs' = rs
          /\ lastWrite' = [op |-> "LeaderTick", run |-> 0, by |-> l, epoch |-> c.epoch]
    /\ UNCHANGED <<now, defs, reload, kvVars, coVars, rtVars, resp, mat>>

\* ---- the leader tick with get_or_create in its two statements
\* The SELECTs of get_or_create over the window: the pairs that have no row
Misses(rs, t) ==
    {p \in (DOMAIN defs) \X (t..(t + Max2(0, AssignAhead))) :
        ScheduleMatchesSlot(p[2], defs[p[1]]) /\ ~RunExists(rs, p[1], p[2])}

\* The INSERTs for the pairs the SELECTs missed, in the loop's order
RECURSIVE InsertAll(_, _)
InsertAll(rs, miss) ==
    IF miss = {} THEN rs
    ELSE LET p == CHOOSE q \in miss : \A r \in miss \ {q} :
                     q[1] < r[1] \/ (q[1] = r[1] /\ q[2] < r[2])
         IN InsertAll(InsertRun(rs, p[1], p[2]), miss \ {p})

\* The tick's transaction as it commits, with the lookups done before
CommitRows(rs, miss, c) ==
    LET a == PhaseA(rs, c.t, c.active)
        b == PhaseB(a, c.t, c.active)
        m == InsertAll(b, miss)
    IN IF c.active = {} THEN m
       ELSE LET d == PhaseD(m, c) IN PhaseE(d.rs, d.ac, c)

\* A leader tick reaches the lookups of get_or_create.
MatLookup(l) ==
    /\ status[l].is_leader
    /\ mat[l].pc = "idle"
    /\ mat' = [mat EXCEPT ![l] = [pc |-> "insert", miss |-> Misses(runs, now),
                                  absorbed |-> FALSE]]
    /\ UNCHANGED <<storeVars, kvVars, coVars, rtVars, resp>>
    /\ NoSave

\* The tick INSERTs what it missed, goes on to assign, and commits; an
\* IntegrityError of an INSERT is absorbed.
MatCommit(l) ==
    /\ mat[l].pc = "insert"
    /\ LET c == TickContext(l)
           rs == CommitRows(runs, mat[l].miss, c)
       IN /\ Len(rs) <= MaxRuns
          /\ Writes(rs) <= MaxWrites
          /\ runs' = rs
          /\ lastWrite' = [op |-> "LeaderTick", run |-> 0, by |-> l, epoch |-> c.epoch]
          /\ mat' = [mat EXCEPT ![l] =
                       [pc |-> "idle", miss |-> {},
                        absorbed |-> \E p \in mat[l].miss : RunExists(runs, p[1], p[2])]]
    /\ UNCHANGED <<now, defs, reload, kvVars, coVars, rtVars, resp>>

\* ---- the materialization window on a clock that counts seconds
\* _floor_to_minute: dt.replace(second=0, microsecond=0)
FloorNone(s) == s
FloorToMinute(s) == s - (s % 60)

\* _iter_minute_slots: start, start + 1 minute, ... while <= end
IterMinuteSlots(a, b) == {a + 60 * k : k \in 0..((b - a) \div 60)}

\* dt.minute of a clock value
MinuteOf(s) == (s \div 60) % 60

\* window_start .. window_end of a tick at clock value s
WindowSlots(s, ahead) ==
    IterMinuteSlots(FloorToMinute(s), FloorToMinute(s + Max2(0, ahead)))

\* The loop over the slots of the window for job definition jd, in
\* ascending order
RECURSIVE EnsureSlots(_, _, _)
EnsureSlots(rs, jd, slots) ==
    IF slots = {} THEN rs
    ELSE LET slot == CHOOSE x \in slots : \A y \in slots : x <= y
         IN EnsureSlots(
                IF ScheduleMatchesSlot(MinuteOf(slot), defs[jd])
                THEN EnsureJobRun(rs, jd, slot) ELSE rs,
                jd, slots \ {slot})

RECURSIVE MaterializeWindow(_, _, _)
MaterializeWindow(rs, jd, slots) ==
    IF jd > Len(defs) THEN rs
    ELSE MaterializeWindow(EnsureSlots(rs, jd, slots), jd + 1, slots)

\* run_leader_tick_snapshot called while no worker is active: phases A, B,
\* D and E find no row to act on, the tick materializes the window.
SlotTick ==
    /\ hb = {}
    /\ \A i \in DOMAIN runs : runs[i].state = "PENDING"
    /\ runs' = MaterializeWindow(runs, 1, WindowSlots(now, AssignAheadSeconds))
    /\ Len(runs') <= MaxRuns
    /\ lastWrite' = [op |-> "Materialize", run |-> 0, by |-> None, epoch |-> Null]
    /\ UNCHANGED <<now, defs, reload, kvVars, coVars, rtVars, resp, mat>>

\* The clock, in seconds, moves on.
SlotAdvance(d) ==
    /\ now + d <= MaxSeconds
    /\ now' = now + d
    /\ UNCHANGED <<defs, reload, runs, kvVars, coVars, rtVars, resp, mat>>
    /\ NoSave

\* Time passes.
AdvanceClock ==
    /\ now < MaxTime
    /\ now' = now + 1
    /\ UNCHANGED <<defs, reload, runs, kvVars, coVars, rtVars, resp, mat>>
    /\ NoSave

\* ======================================================================
\* Worker runtime: the RPC handlers and the supervised child
\* ======================================================================

\* One row saved by one transaction
Wrote(i, jr, op, by, e) ==
    /\ Writes(runs) < MaxWrites
    /\ runs' = [runs EXCEPT ![i] = jr]
    /\ lastWrite' = [op |-> op, run |-> i, by |-> by, epoch |-> e]

\* StartJob, the checks under the runtime lock and the validation of the
\* request: the rejection, or "PASS".
StartJobCheckNoEpoch(w, req) ==
    IF rt[w].detached THEN "REJECTED_DETACHED"
    ELSE IF rt[w].draining THEN "REJECTED_DRAINING"
    ELSE IF rt[w].proc # None \/ rt[w].cur # None THEN "REJECTED_ALREADY_RUNNING"
    ELSE IF req.run <= 0 \/ ~req.valid THEN "REJECTED_INVALID"
    ELSE "PASS"

Busy(w) == rt[w].proc # None \/ rt[w].cur # None

StartJobCheck(w, req) ==
    IF req.epoch < status[w].cluster_epoch THEN "REJECTED_OLD_EPOCH"
    ELSE IF rt[w].detached THEN "REJECTED_DETACHED"
    ELSE IF rt[w].draining THEN "REJECTED_DRAINING"
    ELSE IF Busy(w) THEN "REJECTED_ALREADY_RUNNING"
    ELSE IF req.run <= 0 \/ ~req.valid THEN "REJECTED_INVALID"
    ELSE "PASS"

\* The StartJob handlers past the checks and not yet returned
RECURSIVE SumOver(_, _)
SumOver(f, S) ==
    IF S = {} THEN 0
    ELSE LET x == CHOOSE y \in S : TRUE IN f[x] + SumOver(f, S \ {x})

Inflight == SumOver([w \in Workers |-> Cardinality(sj[w])], Workers)

\* A StartJob request reaches worker w: rejected at the checks, or the
\* handler goes on to _jobrun_mark_running.
StartJobBegin(w, req, dep, cap) ==
    IF StartJobCheck(w, req) = "PASS"
    THEN /\ Inflight < cap
         /\ sj' = [sj EXCEPT ![w] = @ \cup
                     {[run |-> req.run, epoch |-> req.epoch,
                       attempt |-> req.attempt, pc |-> "mark", dep |-> dep]}]
    ELSE UNCHANGED sj

\* The dispatcher's pass over one ASSIGNED run
Dispatch(l, i, cap) ==
    /\ status[l].is_leader
    /\ i \in DOMAIN runs
    /\ runs[i].state = "ASSIGNED"
    /\ runs[i].worker # None
    /\ runs[i].worker \in hb
    /\ RunningCounts(runs)[runs[i].worker] = 0
    /\ runs[i].started_at = Null
    /\ LET e == EffectiveEpoch(status[l]) IN
       IF SkipLateAfter > 0 /\ runs[i].scheduled_for < now - SkipLateAfter
       THEN /\ SkipOk(runs[i])
            /\ Wrote(i, Traced(Skip(runs[i]), SkippedLate), "Skip", l, e)
            /\ UNCHANGED <<now, defs, reload, kvVars, coVars, rtVars, resp, mat>>
       ELSE /\ StartJobBegin(runs[i].worker,
                             [run |-> i, epoch |-> e, attempt |-> runs[i].attempt,
                              valid |-> TRUE],
                             epochKey > e, cap)
            /\ sj' # sj
            /\ UNCHANGED <<storeVars, kvVars, coVars, rt, child, resp, mat>>
            /\ NoSave

\* A StartJob request of any client reaches worker w; a rejection at the
\* checks is returned at once.
StartJobRpc(w, req) ==
    /\ StartJobBegin(w, req, FALSE, MaxInflight)
    /\ IF StartJobCheck(w, req) = "PASS"
       THEN UNCHANGED resp
       ELSE resp' = [to |-> w, epoch |-> req.epoch,
                     result |-> StartJobCheck(w, req)]
    /\ sj' # sj \/ resp' # resp
    /\ UNCHANGED <<storeVars, kvVars, coVars, rt, child, mat>>
    /\ NoSave

\* Drain: the flag is toggled under the lock.
Drain(w, enable) ==
    /\ rt' = [rt EXCEPT ![w].draining = enable]
    /\ rt' # rt
    /\ UNCHANGED <<storeVars, kvVars, coVars, sj, child, resp, mat>>
    /\ NoSave

\* StartJob, _jobrun_mark_running: REJECTED_INVALID when not eligible
StartJobMark(w) ==
    \E h \in sj[w] :
        /\ h.pc = "mark"
        /\ IF h.run \in DOMAIN runs /\ MarkRunningOk(runs[h.run], w, h.epoch)
           THEN /\ Wrote(h.run, MarkRunning(runs[h.run], h.attempt, now),
                         "MarkRunning", w, h.epoch)
                /\ sj' = [sj EXCEPT ![w] = (@ \ {h}) \cup {[h EXCEPT !.pc = "spawn"]}]
           ELSE /\ sj' = [sj EXCEPT ![w] = @ \ {h}]
                /\ UNCHANGED runs /\ NoSave
        /\ UNCHANGED <<now, defs, reload, kvVars, coVars, rt, child, resp, mat>>

\* _jobrun_finish as called by worker w
FinishBy(w, i, final) ==
    IF FinishOk(runs[i], w)
    THEN Wrote(i, Finish(runs[i], final), "Finish", w, Null)
    ELSE UNCHANGED runs /\ NoSave

\* StartJob after the RUNNING transition: the log file and the child are
\* opened and the latch is set (ACCEPTED), or one of the two fails.
StartJobSpawn(w) ==
    \E h \in sj[w] :
        /\ h.pc = "spawn"
        /\ sj' = [sj EXCEPT ![w] = @ \ {h}]
        /\ \/ /\ rt' = [rt EXCEPT ![w].proc = h.run, ![w].cur = h.run,
                                  ![w].load = 1, ![w].cancel = FALSE]
              /\ child' = [child EXCEPT ![w] = @ \cup {h.run}]
              /\ UNCHANGED runs /\ NoSave
           \/ /\ FinishBy(w, h.run, "FAILED")
              /\ UNCHANGED <<rt, child>>
           \/ /\ FinishBy(w, h.run, "FAILED")
              /\ rt' = [rt EXCEPT ![w].cur = None, ![w].load = 0]
              /\ UNCHANGED child
        /\ UNCHANGED <<now, defs, reload, kvVars, coVars, resp, mat>>

\* The classification of _wait_and_finalize
FinalState(timedOut, cancelRequested, exitZero) ==
    IF timedOut THEN "TIMED_OUT"
    ELSE IF cancelRequested THEN "CANCELED"
    ELSE IF exitZero THEN "SUCCEEDED"
    ELSE "FAILED"

\* The child of run i ends and its supervisor thread finalizes it.
Finalize(w, i) ==
    /\ i \in child[w]
    /\ \E timedOut \in BOOLEAN, exitZero \in BOOLEAN :
          FinishBy(w, i, FinalState(timedOut, rt[w].cancel, exitZero))
    /\ rt' = [rt EXCEPT ![w].proc = None, ![w].cur = None, ![w].load = 0,
                        ![w].cancel = FALSE]
    /\ child' = [child EXCEPT ![w] = @ \ {i}]
    /\ UNCHANGED <<now, defs, reload, sj, kvVars, coVars, resp, mat>>

\* CancelJob for the run the latch holds
CancelJob(w, i, e) ==
    /\ ~(e < status[w].cluster_epoch)
    /\ i > 0
    /\ rt[w].proc = i
    /\ rt' = [rt EXCEPT ![w].cancel = TRUE]
    /\ FinishBy(w, i, "CANCELED")
    /\ rt' # rt \/ runs' # runs
    /\ UNCHANGED <<now, defs, reload, sj, child, kvVars, coVars, resp, mat>>

\* CancelJob as any client calls it: the answer of the handler
CancelJobResult(w, i, e) ==
    IF e < status[w].cluster_epoch THEN "REJECTED_OLD_EPOCH"
    ELSE IF i = 0 THEN "NOT_FOUND"
    ELSE IF rt[w].proc = None \/ rt[w].proc # i THEN "NOT_FOUND"
    ELSE "ACCEPTED"

\* The whole handler, with the answer recorded; job_run_id 0 stands for
\* the empty string.
CancelJobRpc(w, i, e) ==
    /\ resp' = [to |-> w, epoch |-> e, result |-> CancelJobResult(w, i, e),
                run |-> i]
    /\ IF CancelJobResult(w, i, e) = "ACCEPTED"
       THEN /\ rt' = [rt EXCEPT ![w].cancel = TRUE]
            /\ FinishBy(w, i, "CANCELED")
       ELSE UNCHANGED <<rt, runs>> /\ NoSave
    /\ UNCHANGED <<now, defs, reload, sj, child, kvVars, coVars, mat>>

\* ---- _wait_and_finalize step by step, for the child the latch holds.
\* rt[w].sup is the supervision routine: its position, its locals timed_out
\* and final_state, how the child exited, and (history) whether
\* _proc_cancel_requested was set when the child exited.

\* The poll loop finds the deadline passed: timed_out, terminate.
TimeoutExpires(w) ==
    /\ rt[w].proc # None
    /\ rt[w].proc \in child[w]
    /\ rt[w].sup.pc = "idle"
    /\ rt' = [rt EXCEPT ![w].sup.pc = "term", ![w].sup.timedOut = TRUE]
    /\ UNCHANGED <<storeVars, sj, child, kvVars, coVars, resp, mat>>
    /\ NoSave

\* The child exits: by itself, or on the signal of the timeout or of
\* CancelJob.
ChildExits(w, exitZero) ==
    /\ rt[w].proc # None
    /\ rt[w].proc \in child[w]
    /\ rt[w].sup.pc \in {"idle", "term"}
    /\ rt' = [rt EXCEPT ![w].sup.pc = "exited",
                        ![w].sup.exitZero = exitZero,
                        ![w].sup.cancelAtExit = rt[w].cancel]
    /\ UNCHANGED <<storeVars, sj, child, kvVars, coVars, resp, mat>>
    /\ NoSave

\* The loop has seen the exit; cancel_requested is read under the lock and
\* the outcome is classified.
Classify(w) ==
    /\ rt[w].sup.pc = "exited"
    /\ rt' = [rt EXCEPT ![w].sup.pc = "classified",
                        ![w].sup.final =
                            FinalState(rt[w].sup.timedOut, rt[w].cancel,
                                       rt[w].sup.exitZero)]
    /\ UNCHANGED <<storeVars, sj, child, kvVars, coVars, resp, mat>>
    /\ NoSave

\* _jobrun_finish with the classified state, then the latch is cleared.
SupervisorFinish(w) ==
    /\ rt[w].sup.pc = "classified"
    /\ FinishBy(w, rt[w].proc, rt[w].sup.final)
    /\ rt' = [rt EXCEPT ![w].proc = None, ![w].cur = None, ![w].load = 0,
                        ![w].cancel = FALSE, ![w].sup = SupIdle]
    /\ child' = [child EXCEPT ![w] = @ \ {rt[w].proc}]
    /\ UNCHANGED <<now, defs, reload, sj, kvVars, coVars, resp, mat>>

\* _jobrun_finish raises in the supervision thread (the SELECT ... FOR
\* UPDATE or the save fails): nothing catches it in _wait_and_finalize, the
\* thread ends with the statements after the call not executed, and the
\* latch stays as StartJob set it.
SupervisorFinishRaises(w) ==
    /\ rt[w].sup.pc = "classified"
    /\ rt' = [rt EXCEPT ![w].sup.pc = "dead"]
    /\ child' = [child EXCEPT ![w] = @ \ {rt[w].proc}]
    /\ UNCHANGED <<storeVars, sj, kvVars, coVars, resp, mat>>
    /\ NoSave

\* The reconciler's pass over one RUNNING run of a worker whose GetStatus
\* answered
Reconcile(l, i) ==
    /\ status[l].is_leader
    /\ i \in DOMAIN runs
    /\ runs[i].state = "RUNNING"
    /\ runs[i].worker \in hb
    /\ LET e == EffectiveEpoch(status[l])
           cur == rt[runs[i].worker].cur
       IN IF runs[i].cstate = "CONFIRMING"
          THEN /\ DeadlineOrphanOk(runs[i], now)
               /\ Wrote(i, Traced(OrphanRunning(runs[i]), OrphanedMismatch),
                        "Reconcile", l, e)
          ELSE /\ cur = None \/ cur # i
               /\ ConfirmingOk(runs[i])
               /\ Wrote(i, Traced(EnterConfirming(runs[i], now), ConfirmingNoJob),
                        "Reconcile", l, e)
    /\ UNCHANGED <<now, defs, reload, kvVars, coVars, rtVars, resp, mat>>

CoordInit ==
    /\ leaderLock = None
    /\ subLock = None
    /\ epochKey = 0
    /\ hb = {}
    /\ co = [w \in Workers |-> CoInit]
    /\ ck = [w \in Workers |-> CkIdle]
    /\ status = [w \in Workers |-> StatusInit]
    /\ issued = {}

ExecInit ==
    /\ now = 0
    /\ reload = ReloadIdle
    /\ mat = [w \in Workers |-> MatIdle]
    /\ resp = NoResp
    /\ runs = <<>>
    /\ lastWrite = NoWrite
    /\ rt = [w \in Workers |-> RtInit]
    /\ sj = [w \in Workers |-> {}]
    /\ child = [w \in Workers |-> {}]

CoordNext ==
    \/ \E w \in Workers : TickBegin(w)
    \/ \E w \in Workers : TickNext(w)
    \/ \E w \in Workers : TickRaise(w)
    \/ \E w \in Workers : Restart(w)
    \/ ExpireLeaderLock
    \/ ExpireSubLock

vars == <<kvVars, coVars, execVars, lastWrite>>

\* Workers with no job definitions in the store
CoordSpecInit == CoordInit /\ ExecInit /\ defs = <<>>

CoordSpec == CoordSpecInit /\ [][CoordNext]_vars

Init ==
    /\ CoordInit
    /\ ExecInit
    /\ defs \in {<<Hourly(0)>>, <<Hourly(1)>>}

Next ==
    \/ \E w \in Workers : Tick(w)
    \/ \E w \in Workers : ExpireHeartbeat(w)
    \/ ExpireLeaderLock
    \/ ExpireSubLock
    \/ AdvanceClock
    \/ \E l \in Workers : LeaderTick(l)
    \/ \E l \in Workers, i \in 1..MaxRuns : Dispatch(l, i, MaxInflight)
    \/ \E w \in Workers : StartJobMark(w)
    \/ \E w \in Workers : StartJobSpawn(w)
    \/ \E w \in Workers, i \in 1..MaxRuns : Finalize(w, i)
    \/ \E w \in Workers, i \in 1..MaxRuns, e \in 0..MaxEpoch : CancelJob(w, i, e)
    \/ \E l \in Workers, i \in 1..MaxRuns : Reconcile(l, i)

Spec == Init /\ [][Next]_vars

\* Two job definitions due in the same window, and an RPC pool that may
\* run two StartJob handlers at once; the clock stands still.
PoolInit ==
    /\ CoordInit
    /\ ExecInit
    /\ defs = <<Hourly(0), Hourly(1)>>

PoolNext ==
    \/ \E w \in Workers : Tick(w)
    \/ \E w \in Workers : ExpireHeartbeat(w)
    \/ ExpireLeaderLock
    \/ \E l \in Workers : LeaderTick(l)
    \/ \E l \in Workers, i \in 1..MaxRuns : Dispatch(l, i, MaxPoolInflight)
    \/ \E w \in Workers : StartJobMark(w)
    \/ \E w \in Workers : StartJobSpawn(w)
    \/ \E w \in Workers, i \in 1..MaxRuns : Finalize(w, i)

PoolSpec == PoolInit /\ [][PoolNext]_vars

\* The Worker service called by any client: requests with any epoch, run id
\* and payload, and Drain; the clock stands still.
RpcInit ==
    /\ CoordInit
    /\ ExecInit
    /\ defs = <<Hourly(0)>>

Requests ==
    [run : 0..MaxRuns, epoch : 0..MaxEpoch, attempt : {0}, valid : BOOLEAN]

RpcNext ==
    \/ \E w \in Workers : Tick(w)
    \/ \E l \in Workers : LeaderTick(l)
    \/ \E w \in Workers, req \in Requests : StartJobRpc(w, req)
    \/ \E w \in Workers, enable \in BOOLEAN : Drain(w, enable)
    \/ \E w \in Workers : StartJobMark(w)
    \/ \E w \in Workers : StartJobSpawn(w)
    \/ \E w \in Workers, i \in 1..MaxRuns : Finalize(w, i)

RpcSpec == RpcInit /\ [][RpcNext]_vars

\* Leader ticks of workers that may both believe they lead, each split
\* between the lookups and the INSERTs of get_or_create
MatInit ==
    /\ CoordInit
    /\ ExecInit
    /\ defs = <<Hourly(0)>>

MatNext ==
    \/ \E w \in Workers : Tick(w)
    \/ \E w \in Workers : ExpireHeartbeat(w)
    \/ ExpireLeaderLock
    \/ ExpireSubLock
    \/ \E l \in Workers : MatLookup(l)
    \/ \E l \in Workers : MatCommit(l)

MatSpec == MatInit /\ [][MatNext]_vars

\* A store left by an earlier incarnation of the cluster (epoch 1): up to
\* MaxBatch runs of a definition since disabled, PENDING, ASSIGNED or
\* RUNNING on either worker; the workers have restarted and every key but
\* the epoch has expired. The clock stands still.
BatchRows(sf) ==
    {NewRun(1, sf)}
    \cup {[NewRun(1, sf) EXCEPT !.state = "ASSIGNED", !.worker = w,
                                !.assigned_at = BatchNow - 1,
                                !.leader_epoch = 1, !.version = 1]
            : w \in Workers}
    \cup {[NewRun(1, sf) EXCEPT !.state = "RUNNING", !.worker = w,
                                !.assigned_at = BatchNow - 1,
                                !.started_at = BatchNow - 1,
                                !.leader_epoch = 1, !.version = 2]
            : w \in Workers}

BatchStores ==
    UNION {{rs \in [1..n -> UNION {BatchRows(sf) : sf \in 1..MaxBatch}] :
              /\ \A i, j \in 1..n : i # j =>
                    /\ rs[i].scheduled_for # rs[j].scheduled_for
                    /\ ~(rs[i].state = "RUNNING" /\ rs[j].state = "RUNNING"
                         /\ rs[i].worker = rs[j].worker)}
           : n \in 1..MaxBatch}

BatchInit ==
    /\ leaderLock = None
    /\ subLock = None
    /\ epochKey = 1
    /\ hb = {}
    /\ co = [w \in Workers |-> CoInit]
    /\ ck = [w \in Workers |-> CkIdle]
    /\ status = [w \in Workers |-> StatusInit]
    /\ issued = {1}
    /\ now = BatchNow
    /\ reload = ReloadIdle
    /\ defs = <<>>
    /\ runs \in BatchStores
    /\ mat = [w \in Workers |-> MatIdle]
    /\ resp = NoResp
    /\ lastWrite = NoWrite
    /\ rt = [w \in Workers |-> RtInit]
    /\ sj = [w \in Workers |-> {}]
    /\ child = [w \in Workers |-> {}]

\* The main loop's leader tick on such a store
BatchTick(l) ==
    /\ status[l].is_leader
    /\ LET c == TickContext(l)
           rs == LeaderTickRows(runs, c)
       IN /\ rs # runs
          /\ Writes(rs) <= MaxBatchWrites
          /\ runs' = rs
          /\ lastWrite' = [op |-> "LeaderTick", run |-> 0, by |-> l, epoch |-> c.epoch]
    /\ UNCHANGED <<now, defs, reload, kvVars, coVars, rtVars, resp, mat>>

BatchNext ==
    \/ \E w \in Workers : Tick(w)
    \/ \E w \in Workers : ExpireHeartbeat(w)
    \/ ExpireLeaderLock
    \/ ExpireSubLock
    \/ \E l \in Workers : BatchTick(l)

BatchSpec == BatchInit /\ [][BatchNext]_vars

\* One run started on a worker, its supervision routine step by step and
\* CancelJob with any epoch at any moment; no key expires and the clock
\* stands still.
SuperInit ==
    /\ CoordInit
    /\ ExecInit
    /\ defs = <<Hourly(0)>>

SuperNext ==
    \/ \E w \in Workers : Tick(w)
    \/ \E l \in Workers : LeaderTick(l)
    \/ \E l \in Workers, i \in 1..MaxRuns : Dispatch(l, i, MaxInflight)
    \/ \E w \in Workers : StartJobMark(w)
    \/ \E w \in Workers : StartJobSpawn(w)
    \/ \E w \in Workers : TimeoutExpires(w)
    \/ \E w \in Workers, exitZero \in BOOLEAN : ChildExits(w, exitZero)
    \/ \E w \in Workers : Classify(w)
    \/ \E w \in Workers : SupervisorFinish(w)
    \/ \E w \in Workers, i \in 1..MaxRuns, e \in 0..MaxEpoch : CancelJob(w, i, e)

SuperSpec == SuperInit /\ [][SuperNext]_vars

\* The same, with CancelJob called by any client for any run id, the
\* empty one included, and its answer recorded.
CancelNext ==
    \/ \E w \in Workers : Tick(w)
    \/ \E l \in Workers : LeaderTick(l)
    \/ \E l \in Workers, i \in 1..MaxRuns : Dispatch(l, i, MaxInflight)
    \/ \E w \in Workers : StartJobMark(w)
    \/ \E w \in Workers : StartJobSpawn(w)
    \/ \E w \in Workers : TimeoutExpires(w)
    \/ \E w \in Workers, exitZero \in BOOLEAN : ChildExits(w, exitZero)
    \/ \E w \in Workers : Classify(w)
    \/ \E w \in Workers : SupervisorFinish(w)
    \/ \E w \in Workers, i \in 0..MaxRuns, e \in 0..MaxEpoch : CancelJobRpc(w, i, e)

CancelSpec == SuperInit /\ [][CancelNext]_vars

\* One run started on a worker and its supervision thread, which keeps
\* running until it returns or an exception ends it; the store may fail
\* under its terminal write.
WaitNext ==
    \/ SuperNext
    \/ \E w \in Workers : SupervisorFinishRaises(w)

WaitSpec ==
    /\ SuperInit
    /\ [][WaitNext]_vars
    /\ \A w \in Workers : WF_vars(Classify(w))
    /\ \A w \in Workers : WF_vars(SupervisorFinish(w) \/ SupervisorFinishRaises(w))

\* ======================================================================
\* Config reload
\* ======================================================================

\* ConfigReloadRequest.objects.create(status=PENDING); saves counts the
\* saves of the row by the leaders (history).
NewReload ==
    [status |-> "PENDING", applied_at |-> Null, leader_worker_id |-> None,
     leader_epoch |-> Null, saves |-> 0]

\* The operations page creates a request.
RequestReload ==
    /\ Len(reload.reqs) < MaxReloads
    /\ reload' = [reload EXCEPT !.reqs = Append(@, NewReload)]
    /\ UNCHANGED <<now, defs, runs, kvVars, coVars, rtVars, resp, mat>>
    /\ NoSave

\* filter(status=PENDING).order_by("requested_at", "id").first()
OldestPending(reqs) ==
    LET p == {k \in DOMAIN reqs : reqs[k].status = "PENDING"}
    IN IF p = {} THEN 0 ELSE CHOOSE k \in p : \A j \in p : k <= j

\* The main loop of a worker whose status says leader finds a request and
\* lists its targets.
ReloadBegin(l) ==
    /\ status[l].is_leader
    /\ reload.h[l].pc = "idle"
    /\ OldestPending(reload.reqs) # 0
    /\ reload' = [reload EXCEPT !.h[l] =
                     [pc |-> "call", req |-> OldestPending(reload.reqs),
                      epoch |-> EffectiveEpoch(status[l]),
                      targets |-> hb, todo |-> hb, oks |-> {}]]
    /\ UNCHANGED <<now, defs, runs, kvVars, coVars, rtVars, resp, mat>>
    /\ NoSave

\* WorkerService.ReloadConfig: ok unless the epoch is old
ReloadConfigOk(w, e) == ~(e < status[w].cluster_epoch)

\* reload_config_on_worker for the next target: the worker's answer, or an
\* exception of the call.
ReloadCall(l, w, raises) ==
    /\ reload.h[l].pc = "call"
    /\ w \in reload.h[l].todo
    /\ reload' = [reload EXCEPT
                     !.h[l].todo = @ \ {w},
                     !.h[l].oks = IF ~raises /\ ReloadConfigOk(w, reload.h[l].epoch)
                                  THEN @ \cup {w} ELSE @]
    /\ UNCHANGED <<now, defs, runs, kvVars, coVars, rtVars, resp, mat>>
    /\ NoSave

\* The status the loop gives the request
ReloadStatus(total, okCount) ==
    IF total = 0 \/ okCount = total THEN "APPLIED" ELSE "FAILED"

\* req.save(update_fields=[status, applied_at, leader_worker_id, ...])
ReloadSave(l) ==
    /\ reload.h[l].pc = "call"
    /\ reload.h[l].todo = {}
    /\ reload' = [reload EXCEPT
                     !.reqs[reload.h[l].req] =
                        [status |-> ReloadStatus(Cardinality(reload.h[l].targets),
                                                 Cardinality(reload.h[l].oks)),
                         applied_at |-> now,
                         leader_worker_id |-> l,
                         leader_epoch |-> reload.h[l].epoch,
                         saves |-> @.saves + 1],
                     !.h[l] = ReloadLocalsIdle]
    /\ UNCHANGED <<now, defs, runs, kvVars, coVars, rtVars, resp, mat>>
    /\ NoSave

\* Workers, their locks and heartbeats, and reload requests; no job
\* definitions.
ReloadInit == CoordInit /\ ExecInit /\ defs = <<>>

ReloadNext ==
    \/ \E w \in Workers : Tick(w)
    \/ \E w \in Workers : ExpireHeartbeat(w)
    \/ ExpireLeaderLock
    \/ RequestReload
    \/ \E l \in Workers : ReloadBegin(l)
    \/ \E l \in Workers, w \in Workers, raises \in BOOLEAN : ReloadCall(l, w, raises)
    \/ \E l \in Workers : ReloadSave(l)

ReloadSpec == ReloadInit /\ [][ReloadNext]_vars

\* ======================================================================
\* The main loop as the worker command runs it
\* ======================================================================

\* The events API creates a PENDING run of an event job, scheduled_for now.
IngestEvent ==
    /\ Len(runs) < MaxRuns
    /\ UniqueOk(runs, 1, now)
    /\ runs' = Append(runs, NewRun(1, now))
    /\ lastWrite' = [op |-> "IngestEvent", run |-> Len(runs) + 1, by |-> None,
                     epoch |-> Null]
    /\ UNCHANGED <<now, defs, reload, kvVars, coVars, rtVars, resp, mat>>

\* The finally block of the main loop: the coordination thread is joined,
\* the gRPC server is stopped and coordinator.shutdown releases the locks the
\* coordinator believes it holds; when the release raises, the key stays
\* until its TTL. The process ends.
MainLoopEnds(l, released) ==
    /\ leaderLock' = IF co[l].isLeader /\ released THEN Released(leaderLock, l)
                     ELSE leaderLock
    /\ subLock' = IF co[l].isSub /\ released THEN Released(subLock, l)
                  ELSE subLock
    /\ co' = [co EXCEPT ![l] = CoInit]
    /\ ck' = [ck EXCEPT ![l].pc = "exited"]
    /\ status' = [status EXCEPT ![l] = StatusInit]
    /\ rt' = [rt EXCEPT ![l] = RtInit]
    /\ sj' = [sj EXCEPT ![l] = {}]
    /\ UNCHANGED <<epochKey, hb, issued, storeVars, child, resp, mat>>
    /\ NoSave

\* The main loop's leader branch as written: run_leader_tick_snapshot is
\* called with the keyword skip_late_runs_after_seconds, which its
\* signature does not have, so the call raises TypeError before its first
\* statement. The loop has no handler for it and the finally block runs.
LeaderTickCall(l) ==
    /\ status[l].is_leader
    /\ ck[l].pc = "idle"
    /\ MainLoopEnds(l, TRUE)

\* list_workers raises in the main loop of a leader (the KV read of the
\* leader tick, the dispatcher, the reload block, the pings or the
\* reconciler): no handler encloses the call and the finally block runs.
ListWorkersRaises(l, released) ==
    /\ status[l].is_leader
    /\ ck[l].pc = "idle"
    /\ MainLoopEnds(l, released)

\* Coordination ticks whose KV commands may raise, TTL expiry, and main
\* loops whose KV reads may raise.
KvNext ==
    \/ \E w \in Workers : TickBegin(w)
    \/ \E w \in Workers : TickNext(w)
    \/ \E w \in Workers : TickRaise(w)
    \/ ExpireLeaderLock
    \/ ExpireSubLock
    \/ \E l \in Workers, released \in BOOLEAN : ListWorkersRaises(l, released)

KvSpec == CoordSpecInit /\ [][KvNext]_vars

\* Workers whose keys do not expire, runs created by events, and the main
\* loop of whoever is leader.
LiveInit == CoordInit /\ ExecInit /\ defs = <<>>

LiveNext ==
    \/ \E w \in Workers : Tick(w)
    \/ IngestEvent
    \/ AdvanceClock
    \/ \E l \in Workers : LeaderTickCall(l)

\* The coordination loop and the main loop of every worker keep running.
LiveSpec ==
    /\ LiveInit
    /\ [][LiveNext]_vars
    /\ \A w \in Workers : WF_vars(Tick(w))
    /\ \A l \in Workers : WF_vars(LeaderTickCall(l))

\* Leader ticks of an every-5-minutes job on a clock that counts the seconds
\* since 12:00:00, started at 12:03:00 or 12:03:30; no worker is active.
SlotInit ==
    /\ CoordInit
    /\ now \in {180, 210}
    /\ defs = <<EveryNMinutes(5)>>
    /\ reload = ReloadIdle
    /\ mat = [w \in Workers |-> MatIdle]
    /\ resp = NoResp
    /\ runs = <<>>
    /\ lastWrite = NoWrite
    /\ rt = [w \in Workers |-> RtInit]
    /\ sj = [w \in Workers |-> {}]
    /\ child = [w \in Workers |-> {}]

SlotNext ==
    \/ SlotTick
    \/ \E d \in {1, 30} : SlotAdvance(d)

SlotSpec == SlotInit /\ [][SlotNext]_vars

\* ======================================================================
\* Leader ticks on stores of ASSIGNED runs, under every setting of
\* rebalance_assigned_max_per_tick
\* ======================================================================

\* The values the setting is given (its constraint is min 0)
MaxPerTickValues == {0, 1, 2}

\* Run jd of the store: ASSIGNED to either worker one second ago, due now or
\* in one second
RebalanceRows(jd) ==
    {[NewRun(jd, sf) EXCEPT !.state = "ASSIGNED", !.worker = w,
                            !.assigned_at = BatchNow - 1,
                            !.leader_epoch = 1, !.version = 1]
        : w \in Workers, sf \in {BatchNow, BatchNow + 1}}

RebalanceStores ==
    UNION {{rs \in [1..n -> UNION {RebalanceRows(jd) : jd \in 1..MaxBatch}] :
              \A i \in 1..n : rs[i].jd = i}
           : n \in 1..MaxBatch}

RebalanceInit ==
    /\ leaderLock = None
    /\ subLock = None
    /\ epochKey = 1
    /\ hb = {}
    /\ co = [w \in Workers |-> CoInit]
    /\ ck = [w \in Workers |-> CkIdle]
    /\ status = [w \in Workers |-> StatusInit]
    /\ issued = {1}
    /\ now = BatchNow
    /\ reload \in {[ReloadIdle EXCEPT !.max_per_tick = m] : m \in MaxPerTickValues}
    /\ defs = <<>>
    /\ runs \in RebalanceStores
    /\ mat = [w \in Workers |-> MatIdle]
    /\ resp = NoResp
    /\ lastWrite = NoWrite
    /\ rt = [w \in Workers |-> RtInit]
    /\ sj = [w \in Workers |-> {}]
    /\ child = [w \in Workers |-> {}]

RebalanceNext ==
    \/ \E w \in Workers : Tick(w)
    \/ \E w \in Workers : ExpireHeartbeat(w)
    \/ ExpireLeaderLock
    \/ ExpireSubLock
    \/ \E l \in Workers : BatchTick(l)

RebalanceSpec == RebalanceInit /\ [][RebalanceNext]_vars

\* ======================================================================
\* The schedule grammar as _schedule_matches_slot reads it
\* ======================================================================

\* JSON values of a schedule's fields: null, an integer, or a string kept as
\* its parts between colons, each part an integer literal or not.
JNull == [t |-> "null"]
JInt(n) == [t |-> "int", v |-> n]
Lit(n) == [ok |-> TRUE, v |-> n]
NotLit == [ok |-> FALSE, v |-> 0]
JStr(parts) == [t |-> "str", parts |-> parts]
JList == [t |-> "list"]

\* isinstance(schedule, dict)
IsDict(x) == "t" \notin DOMAIN x

\* a dict's get(key), null when the key is absent
Get(d, key) == IF key \in DOMAIN d THEN d[key] ELSE JNull

\* Python truthiness of a field value
Truthy(x) ==
    IF x.t = "null" THEN FALSE
    ELSE IF x.t = "int" THEN x.v # 0
    ELSE x.parts # <<>>

\* int(x): the value, or the exception
IntOf(x) ==
    IF x.t = "int" THEN Lit(x.v)
    ELSE IF x.t = "str" /\ Len(x.parts) = 1 THEN x.parts[1]
    ELSE NotLit

\* _parse_hhmm(str(value or "")): (hh, mm), or None
ParseHhmm(x) ==
    IF ~Truthy(x) \/ x.t # "str" THEN NotLit
    ELSE IF Len(x.parts) # 2 THEN NotLit
    ELSE IF ~x.parts[1].ok \/ ~x.parts[2].ok THEN NotLit
    ELSE IF ~(0 <= x.parts[1].v /\ x.parts[1].v <= 23
              /\ 0 <= x.parts[2].v /\ x.parts[2].v <= 59) THEN NotLit
    ELSE [ok |-> TRUE, v |-> 0, hh |-> x.parts[1].v, mm |-> x.parts[2].v]

\* dt.hour and dt.weekday() of a clock value that counts the seconds since
\* a Monday 00:00:00
HourOf(s) == (s \div 3600) % 24
WeekdayOf(s) == (s \div 86400) % 7

\* _schedule_matches_slot
MatchesSlot(s, schedule) ==
    IF ~IsDict(schedule) THEN FALSE
    ELSE IF Get(schedule, "every_n_minutes") # JNull /\ "kind" \notin DOMAIN schedule
    THEN LET n == IntOf(schedule["every_n_minutes"])
         IN IF ~n.ok THEN FALSE
            ELSE ScheduleMatchesEveryNMinutes(MinuteOf(s), n.v)
    ELSE LET kind == IF "kind" \in DOMAIN schedule THEN schedule["kind"] ELSE ""
             hm == ParseHhmm(Get(schedule, "time"))
         IN IF kind = "every_n_minutes"
            THEN LET n == IF Truthy(Get(schedule, "n"))
                          THEN IntOf(schedule["n"]) ELSE Lit(0)
                 IN IF ~n.ok THEN FALSE
                    ELSE ScheduleMatchesEveryNMinutes(MinuteOf(s), n.v)
            ELSE IF kind = "hourly"
            THEN LET minute == IF "minute" \in DOMAIN schedule
                               THEN IntOf(schedule["minute"]) ELSE Lit(0)
                 IN IF ~minute.ok THEN FALSE
                    ELSE IF ~(0 <= minute.v /\ minute.v <= 59) THEN FALSE
                    ELSE MinuteOf(s) = minute.v
            ELSE IF kind = "daily"
            THEN IF ~hm.ok THEN FALSE
                 ELSE HourOf(s) = hm.hh /\ MinuteOf(s) = hm.mm
            ELSE IF kind = "weekdays"
            THEN IF ~hm.ok THEN FALSE
                 ELSE IF WeekdayOf(s) >= 5 THEN FALSE
                 ELSE HourOf(s) = hm.hh /\ MinuteOf(s) = hm.mm
            ELSE IF kind = "weekly"
            THEN IF ~hm.ok THEN FALSE
                 ELSE LET weekday == IF "weekday" \in DOMAIN schedule
                                     THEN IntOf(schedule["weekday"]) ELSE Lit(-1)
                      IN IF ~weekday.ok THEN FALSE
                         ELSE IF ~(0 <= weekday.v /\ weekday.v <= 6) THEN FALSE
                         ELSE /\ WeekdayOf(s) = weekday.v
                              /\ HourOf(s) = hm.hh /\ MinuteOf(s) = hm.mm
            ELSE FALSE

\* The loop over the slots of the window for one schedule, in ascending
\* order
RECURSIVE EnsureMatching(_, _, _)
EnsureMatching(rs, jd, slots) ==
    IF slots = {} THEN rs
    ELSE LET slot == CHOOSE x \in slots : \A y \in slots : x <= y
         IN EnsureMatching(
                IF MatchesSlot(slot, defs[jd])
                THEN EnsureJobRun(rs, jd, slot) ELSE rs,
                jd, slots \ {slot})

\* The schedules a JobDefinition row is given here: the shapes of the
\* grammar with values in and out of range, fields as numbers and as
\* strings, fields left out, an unknown kind and a value that is no dict.
Ns == {JInt(-1), JInt(0), JInt(1), JInt(2), JStr(<<Lit(2)>>), JStr(<<NotLit>>)}
Minutes == {JInt(-1), JInt(0), JInt(1), JInt(59), JInt(60), JStr(<<NotLit>>)}
Times ==
    {JStr(<<Lit(0), Lit(1)>>), JStr(<<Lit(1), Lit(0)>>), JStr(<<Lit(24), Lit(0)>>),
     JStr(<<Lit(0), Lit(60)>>), JStr(<<Lit(0)>>), JStr(<<NotLit, Lit(1)>>)}
Weekdays == {JInt(-1), JInt(0), JInt(5), JInt(6), JInt(7)}

Schedules ==
    {[every_n_minutes |-> n] : n \in Ns}
    \cup {[kind |-> "every_n_minutes", n |-> n] : n \in Ns}
    \cup {[kind |-> "every_n_minutes"]}
    \cup {[kind |-> "hourly", minute |-> m] : m \in Minutes}
    \cup {[kind |-> "hourly"]}
    \cup {[kind |-> k, time |-> t] : k \in {"daily", "weekdays"}, t \in Times}
    \cup {[kind |-> "daily"]}
    \cup {[kind |-> "weekly", weekday |-> w, time |-> t] : w \in Weekdays, t \in Times}
    \cup {[kind |-> "weekly", time |-> JStr(<<Lit(0), Lit(1)>>)]}
    \cup {[kind |-> "monthly", minute |-> JInt(0)], JList}

\* Clock values, in seconds since a Monday 00:00:00: around Monday 00:00,
\* 01:00, Saturday 00:00 and Sunday 00:00.
Moments ==
    {0, 30, 60, 3540, 3570, 3600, 432000, 432030, 432060, 518400, 518430}

MatchInit ==
    /\ CoordInit
    /\ now \in Moments
    /\ defs \in {<<sch>> : sch \in Schedules}
    /\ reload = ReloadIdle
    /\ mat = [w \in Workers |-> MatIdle]
    /\ resp = NoResp
    /\ runs = <<>>
    /\ lastWrite = NoWrite
    /\ rt = [w \in Workers |-> RtInit]
    /\ sj = [w \in Workers |-> {}]
    /\ child = [w \in Workers |-> {}]

\* run_leader_tick_snapshot called while no worker is active: the tick
\* materializes the window.
MatchTick ==
    /\ hb = {}
    /\ \A i \in DOMAIN runs : runs[i].state = "PENDING"
    /\ runs' = EnsureMatching(runs, 1, WindowSlots(now, AssignAheadSeconds))
    /\ lastWrite' = [op |-> "Materialize", run |-> 0, by |-> None, epoch |-> Null]
    /\ UNCHANGED <<now, defs, reload, kvVars, coVars, rtVars, resp, mat>>

\* The clock moves on to a later moment.
MatchAdvance(t) ==
    /\ t > now
    /\ t - now <= 60
    /\ now' = t
    /\ UNCHANGED <<defs, reload, runs, kvVars, coVars, rtVars, resp, mat>>
    /\ NoSave

MatchNext ==
    \/ MatchTick
    \/ \E t \in Moments : MatchAdvance(t)

MatchSpec == MatchInit /\ [][MatchNext]_vars

\* ======================================================================
\* Claims
\* ======================================================================

\* C9: the store never holds two JobRun rows with the same job_definition
\* and the same scheduled_for, also when two workers that both believe they
\* lead materialize the same slot at once; the tick whose INSERT hits the
\* constraint is not aborted: it commits, and leaves no PENDING row of its
\* window unassigned while a worker is active.
C9_UniquePerSlot ==
    [][/\ \A i, j \in DOMAIN runs' :
             (runs'[i].jd = runs'[j].jd
                /\ runs'[i].scheduled_for = runs'[j].scheduled_for) => i = j
       /\ \A l \in Workers :
             (mat[l].pc = "insert" /\ mat'[l].pc = "idle"
                /\ mat'[l].absorbed /\ hb # {})
                 => \A i \in DOMAIN runs' : runs'[i].state # "PENDING"]_vars

\* C9 witness: a leader's INSERT for a slot hit the row another leader had
\* created since its lookup, and the store holds the one row.
C9_Witness ==
    \E l \in Workers :
        /\ mat[l].absorbed
        /\ Len(runs) = 1
        /\ lastWrite.by = l

C1_TerminalNeverChanges ==
    [][\A i \in DOMAIN runs :
          runs[i].state \in Terminal => runs'[i].state = runs[i].state]_vars

\* C1 witness: a run was assigned, started and canceled by CancelJob while
\* its child lived (three saves), and the supervisor has since finalized that
\* child: its terminal write found the row terminal.
C1_Witness ==
    \E i \in DOMAIN runs :
        /\ runs[i].state = "CANCELED"
        /\ runs[i].version = 3
        /\ \A w \in Workers : i \notin child[w] /\ rt[w].proc = None

\* C2 as stated: in every state, for every job_run_id, at most one worker
\* holds a live child for that id.
C2_OneLiveChildPerRun ==
    \A i \in 1..MaxRuns : Cardinality({w \in Workers : i \in child[w]}) <= 1

\* C3 as stated: a worker supervises at most one child at any time, also
\* when two StartJob requests for two runs assigned to it are handled at once.
C3_OneChildPerWorker ==
    \A w \in Workers : Cardinality(child[w]) <= 1

\* C4: a run becomes RUNNING only in a step in which, before the step, its
\* state is ASSIGNED, its assigned_worker_id is the worker handling the
\* StartJob, and its stored leader_epoch is at most the presented one.
C4_RunningOnlyFenced ==
    [][\A i \in DOMAIN runs :
          (runs[i].state # "RUNNING" /\ runs'[i].state = "RUNNING") =>
              /\ runs[i].state = "ASSIGNED"
              /\ lastWrite'.op = "MarkRunning"
              /\ lastWrite'.run = i
              /\ runs[i].worker = lastWrite'.by
              /\ runs[i].leader_epoch <= lastWrite'.epoch]_vars

\* C4 witness: a run stamped with epoch 1 was started by a StartJob that
\* presented epoch 2.
C4_Witness ==
    \E i \in DOMAIN runs :
        /\ runs[i].state = "RUNNING"
        /\ runs[i].leader_epoch = 1
        /\ lastWrite = [op |-> "MarkRunning", run |-> i, by |-> runs[i].worker, epoch |-> 2]

\* C5 as stated: no StartJob that a leader sent with epoch e after a newer
\* epoch had been issued makes a run RUNNING.
C5_NoStartByDeposedLeader ==
    \A w \in Workers : \A h \in sj[w] : ~(h.dep /\ h.pc = "spawn")

\* C6: a StartJob that presents an epoch lower than the cluster_epoch the
\* worker has observed is rejected with REJECTED_OLD_EPOCH (it never gets
\* past the checks), and a StartJob rejected at the epoch, detached,
\* draining, busy or validation check leaves the rows of the store, the
\* latch, current_job_run_id and load as they were.
C6_CheckRejectionsTouchNothing ==
    [][/\ \A w \in Workers : \A h \in sj'[w] \ sj[w] :
              h.pc = "mark" => h.epoch >= status[w].cluster_epoch
       /\ resp' # resp =>
              /\ resp'.epoch < status[resp'.to].cluster_epoch
                    => resp'.result = "REJECTED_OLD_EPOCH"
              /\ resp'.result \in {"REJECTED_OLD_EPOCH", "REJECTED_DETACHED",
                                   "REJECTED_DRAINING", "REJECTED_ALREADY_RUNNING",
                                   "REJECTED_INVALID"}
              /\ runs' = runs
              /\ rt' = rt
              /\ child' = child
              /\ sj' = sj]_vars

\* C6 witness: a worker that has observed cluster_epoch 1 and supervises a
\* child has rejected a StartJob that presented epoch 0 as REJECTED_OLD_EPOCH.
C6_Witness ==
    \E w \in Workers :
        /\ resp = [to |-> w, epoch |-> 0, result |-> "REJECTED_OLD_EPOCH"]
        /\ status[w].cluster_epoch = 1
        /\ rt[w].cur # None

C8_VersionStrictlyIncreases ==
    [][\A i \in DOMAIN runs :
          runs'[i] # runs[i] => runs'[i].version > runs[i].version]_vars

\* C8 witness: a run has been assigned, started, put into CONFIRMING,
\* orphaned and assigned again: five saves, version 5.
C8_Witness ==
    \E i \in DOMAIN runs :
        /\ runs[i].state = "ASSIGNED"
        /\ runs[i].attempt = 1
        /\ runs[i].version = 5

C12_DemotedOnLostRenewal ==
    [][\A w \in Workers :
          (/\ ck[w].pc # "idle"
           /\ ck'[w].pc = "idle"
           /\ \/ ck[w].pc \in {"getL", "adopt", "getS", "renewL"}
              \/ ~co'[w].isLeader)
            => ~status'[w].is_leader]_vars

\* C13 as stated: every change of a run's persisted state follows one of the
\* edges PENDING->ASSIGNED, ORPHANED->ASSIGNED, ASSIGNED->RUNNING,
\* ASSIGNED->ORPHANED, ASSIGNED->SKIPPED, RUNNING->ORPHANED and RUNNING->
\* SUCCEEDED, FAILED, CANCELED or TIMED_OUT. (A leader tick that orphans a
\* RUNNING run and assigns it again saves the row twice in its transaction:
\* RUNNING->ORPHANED, then ORPHANED->ASSIGNED.)
C13_OnlySpecEdges ==
    [][\A i \in DOMAIN runs :
          runs'[i].state # runs[i].state =>
              \/ <<runs[i].state, runs'[i].state>> \in
                     {<<"PENDING", "ASSIGNED">>, <<"ORPHANED", "ASSIGNED">>,
                      <<"ASSIGNED", "RUNNING">>, <<"ASSIGNED", "ORPHANED">>,
                      <<"ASSIGNED", "SKIPPED">>, <<"RUNNING", "ORPHANED">>}
                     \cup ({"RUNNING"} \X (Terminal \ {"SKIPPED"}))
              \/ /\ lastWrite'.op = "LeaderTick"
                 /\ runs[i].state = "RUNNING"
                 /\ runs'[i].state = "ASSIGNED"
                 /\ runs'[i].version = runs[i].version + 2]_vars

\* C14: in every state of the store a run whose state is ASSIGNED or RUNNING
\* names a worker: its assigned_worker_id is not empty.
C14_AssignedOrRunningNamesWorker ==
    \A i \in DOMAIN runs :
        runs[i].state \in {"ASSIGNED", "RUNNING"} => runs[i].worker \in Workers

\* C14 witness: a run that was orphaned (its worker cleared) has been
\* assigned again and started: it is RUNNING in its second attempt and names
\* the worker that runs it.
C14_Witness ==
    \E i \in DOMAIN runs :
        /\ runs[i].state = "RUNNING"
        /\ runs[i].attempt = 1
        /\ runs[i].worker \in Workers
        /\ i \in child[runs[i].worker]

\* C15 as stated: with schedule every_n_minutes n = 5 and assign_ahead = 60
\* seconds, a leader tick at 12:03:30 on an empty store creates exactly one
\* PENDING run, with scheduled_for = 12:05:00, and a tick at 12:04:30 creates
\* no run.
C15_CreatedAtHalfPastThree ==
    [][now' = now =>
          /\ (now = 210 /\ runs = <<>>) => runs' = <<NewRun(1, 300)>>
          /\ now = 270 => runs' = runs]_vars

\* C15 amended: the window of a tick at 12:03:30 is 12:03:00..12:04:00, so
\* that tick creates no run; a tick at 12:04:30 (window 12:04:00..12:05:00)
\* creates exactly one PENDING run, with scheduled_for = 12:05:00, when the
\* store has none for that slot and none when it has; no tick creates a run
\* for 12:04:00.
C15_CreatedAtHalfPastFour ==
    [][now' = now =>
          /\ now = 210 => runs' = runs
          /\ (now = 270 /\ ~RunExists(runs, 1, 300)) =>
                runs' = Append(runs, NewRun(1, 300))
          /\ (now = 270 /\ RunExists(runs, 1, 300)) => runs' = runs
          /\ ~RunExists(runs', 1, 240)]_vars

\* C15 witness: at 12:04:30 a tick has run and the store holds the one
\* PENDING run for 12:05:00.
C15_Witness ==
    /\ now = 270
    /\ lastWrite.op = "Materialize"
    /\ runs = <<NewRun(1, 300)>>

C17_OrphanedAndReassigned ==
    [][\A i \in DOMAIN runs :
        (lastWrite'.op = "LeaderTick" /\ runs' # runs
         /\ runs[i].state = "ASSIGNED") =>
          LET a == PhaseA(runs, now, hb)[i]
              stuck == /\ runs[i].worker \notin hb
                       /\ runs[i].assigned_at < now - Max2(1, ReassignAfter)
          IN IF stuck
             THEN /\ a.state = "ORPHANED"
                  /\ a.worker = None
                  /\ a.assigned_at = Null
                  /\ a.attempt = runs[i].attempt + 1
                  /\ hb = {} => runs'[i] = a
                  /\ hb # {} =>
                       /\ runs'[i].state = "ASSIGNED"
                       /\ runs'[i].worker \in hb
                       /\ runs'[i].worker # runs[i].worker
                       /\ runs'[i].assigned_at = now
                       /\ runs'[i].attempt = runs[i].attempt + 1
             ELSE /\ a = runs[i]
                  /\ runs'[i].state = "ASSIGNED"
                  /\ runs'[i].attempt = runs[i].attempt]_vars

\* A run that was assigned, orphaned by Phase A and assigned again by the
\* same tick: three saves after its creation, one attempt more, and an
\* active worker.
C17_Witness ==
    \E i \in DOMAIN runs :
        /\ lastWrite.op = "LeaderTick"
        /\ runs[i].state = "ASSIGNED"
        /\ runs[i].attempt = 1
        /\ runs[i].version = 3
        /\ runs[i].assigned_at = now
        /\ runs[i].worker \in hb
        /\ Workers \ hb # {}

\* ---- C18
\* In a leader tick, Phase B treats a RUNNING run as follows. Worker not
\* active and continuation NONE: the run stays RUNNING on its worker and
\* becomes CONFIRMING with check_deadline_at = now + confirm_seconds, and
\* that is all the tick does to it. Worker not active, CONFIRMING and
\* check_deadline_at <= now: Phase B sets ORPHANED, continuation NONE,
\* clears the worker, assigned_at, started_at and the deadline, adds
\* exactly 1 to attempt and appends its trace line to error_summary; the
\* tick leaves attempt at that value, and with no active worker leaves the
\* run as Phase B wrote it. Worker active and continuation NONE: the tick
\* leaves the run unchanged.
C18_ConfirmThenOrphan ==
    [][\A i \in DOMAIN runs :
        (lastWrite'.op = "LeaderTick" /\ runs' # runs
         /\ runs[i].state = "RUNNING") =>
          LET b == PhaseB(PhaseA(runs, now, hb), now, hb)[i]
              jr == runs[i]
          IN /\ (jr.worker \notin hb /\ jr.cstate = "NONE") =>
                  /\ b = [jr EXCEPT !.cstate = "CONFIRMING",
                                    !.deadline = now + ConfirmSeconds,
                                    !.version = @ + 1]
                  /\ runs'[i] = b
             /\ (jr.worker \notin hb /\ jr.cstate = "CONFIRMING"
                 /\ jr.deadline <= now) =>
                  /\ b = [jr EXCEPT !.state = "ORPHANED", !.cstate = "NONE",
                                    !.worker = None, !.assigned_at = Null,
                                    !.started_at = Null, !.deadline = Null,
                                    !.attempt = @ + 1, !.version = @ + 1,
                                    !.error_summary =
                                        Append(@, OrphanedDeadline)]
                  /\ runs'[i].attempt = jr.attempt + 1
                  /\ hb = {} => runs'[i] = b
             /\ (jr.worker \in hb /\ jr.cstate = "NONE") =>
                  runs'[i] = jr]_vars

\* The only run of the store was assigned, started, marked CONFIRMING and
\* then orphaned by a leader tick that had no active worker to assign to:
\* four saves, one attempt more.
C18_Witness ==
    /\ Len(runs) = 1
    /\ lastWrite.op = "LeaderTick"
    /\ hb = {}
    /\ runs[1].state = "ORPHANED"
    /\ runs[1].cstate = "NONE"
    /\ runs[1].worker = None
    /\ runs[1].started_at = Null
    /\ runs[1].attempt = 1
    /\ runs[1].version = 4

C20_FinalStateByPrecedence ==
    [][\A w \in Workers :
        (rt[w].sup.pc = "classified" /\ rt'[w].sup.pc = "idle") =>
          LET s == rt[w].sup
              jr == runs'[rt[w].proc]
          IN /\ jr.state = IF s.timedOut THEN "TIMED_OUT"
                           ELSE IF s.cancelAtExit THEN "CANCELED"
                           ELSE IF s.exitZero THEN "SUCCEEDED"
                           ELSE "FAILED"
             /\ (s.timedOut \/ rt[w].cancel) => jr.state # "FAILED"]_vars

\* ---- C21
\* CancelJob answers REJECTED_OLD_EPOCH when the presented epoch is below
\* the worker's cluster_epoch, and otherwise NOT_FOUND when no child is
\* alive or the latched run differs from the requested one; after either
\* answer the latch, the cancel flag, the children and the store are as
\* before, and the cancel flag is set only by an accepted request for the
\* latched run.
C21_CancelRejectionsTouchNothing ==
    [][(resp' # resp /\ DOMAIN resp' = {"to", "epoch", "result", "run"}) =>
        LET w == resp'.to
            i == resp'.run
            e == resp'.epoch
            old == e < status[w].cluster_epoch
            live == /\ rt[w].proc # None
                    /\ rt[w].proc \in child[w]
                    /\ rt[w].sup.pc \in {"idle", "term"}
        IN /\ old => resp'.result = "REJECTED_OLD_EPOCH"
           /\ (~old /\ (~live \/ rt[w].proc # i)) => resp'.result = "NOT_FOUND"
           /\ resp'.result \in {"REJECTED_OLD_EPOCH", "NOT_FOUND"} =>
                 rt' = rt /\ child' = child /\ runs' = runs
           /\ (rt'[w].cancel /\ ~rt[w].cancel) =>
                 resp'.result = "ACCEPTED" /\ rt[w].proc = i]_vars

\* ---- C22
\* A leader's reload block takes the oldest PENDING request and every
\* active worker as a target; it saves only after every target has been
\* called, whatever the calls returned; the save sets APPLIED exactly when
\* every target answered ok (or there was none) and FAILED otherwise, and
\* stamps applied_at, leader_worker_id and leader_epoch; and once a request
\* is no longer PENDING, no reload block works on it and its row stays as
\* it is.
C22_ReloadProcessedOnce ==
    [][\A k \in DOMAIN reload.reqs :
        LET r == reload.reqs[k]
            r2 == reload'.reqs[k]
        IN /\ \A l \in Workers :
                (reload.h[l].pc = "idle" /\ reload'.h[l].pc = "call"
                 /\ reload'.h[l].req = k) =>
                    /\ r.status = "PENDING"
                    /\ \A j \in 1..(k - 1) : reload.reqs[j].status # "PENDING"
                    /\ reload'.h[l].targets = hb
           /\ r2 # r =>
                \E l \in Workers :
                    LET h == reload.h[l]
                    IN /\ h.pc = "call" /\ h.req = k /\ h.todo = {}
                       /\ r2.status = IF h.oks = h.targets THEN "APPLIED"
                                      ELSE "FAILED"
                       /\ r2.applied_at = now
                       /\ r2.leader_worker_id = l
                       /\ r2.leader_epoch = h.epoch
           /\ r.status # "PENDING" =>
                /\ r2 = r
                /\ \A l \in Workers :
                      ~(reload'.h[l] # reload.h[l] /\ reload.h[l].req = k)]_vars

\* ---- C23
\* With the coordination loops and the main loops running and no key
\* expiring, every PENDING run whose scheduled_for is within the window is
\* eventually ASSIGNED or further, and every ASSIGNED run is eventually
\* RUNNING or further.
C23_PendingEventuallyRuns ==
    \A i \in 1..MaxRuns :
        /\ (i \in DOMAIN runs /\ runs[i].state = "PENDING"
            /\ runs[i].scheduled_for <= now + AssignAhead)
              ~> (i \in DOMAIN runs /\ runs[i].state # "PENDING")
        /\ (i \in DOMAIN runs /\ runs[i].state = "ASSIGNED")
              ~> (i \in DOMAIN runs /\ runs[i].state \notin {"PENDING", "ASSIGNED"})

\* C24: the stored attempt of a JobRun never decreases: a step that changes
\* it adds exactly 1 (an orphaning), and no other write, the RUNNING
\* transition with the attempt carried by the StartJob request included,
\* stores a value smaller than the one already stored.
C24_AttemptNeverDecreases ==
    [][\A i \in DOMAIN runs :
          /\ runs'[i].attempt >= runs[i].attempt
          /\ runs'[i].attempt <= runs[i].attempt + 1]_vars

\* C25: error_summary is append-only and bounded: every write of a JobRun
\* keeps the text the row had as a prefix of the text it stores (the traces
\* of orphaning, rebalancing, confirming and skipping survive every later
\* write, the terminal write included), and no stored text is longer than
\* the bound.
C25_SummaryAppendOnlyAndBounded ==
    [][\A i \in DOMAIN runs :
          LET old == runs[i].error_summary
              new == runs'[i].error_summary
          IN /\ Len(old) <= Len(new)
             /\ SubSeq(new, 1, Len(old)) = old
             /\ SummaryChars(new) <= SummaryLimit]_vars

\* C26: a KV error never ends a loop of a worker: whatever KV command of a
\* coordination tick raises and whatever KV read of the main loop raises,
\* the coordination loop and the main loop of every worker go on.
C26_KvErrorNeverEscalates ==
    \A w \in Workers : ck[w].pc # "exited"

\* C27: at any time the store holds at most one RUNNING JobRun per
\* assigned worker, whatever StartJob calls the dispatcher has made and
\* whatever became of them (accepted, or timed out at the leader while the
\* worker still processes them).
C27_OneRunningPerWorker ==
    \A w \in Workers :
        Cardinality({i \in DOMAIN runs :
                        runs[i].state = "RUNNING" /\ runs[i].worker = w}) <= 1

\* C28: a RUNNING run becomes ORPHANED only when it is CONFIRMING and its
\* check deadline is not after now; a leader tick or a reconciler pass made
\* on a CONFIRMING run before its deadline leaves the row as it is: state,
\* continuation state and deadline included.
C28_OrphanOnlyAfterDeadline ==
    [][\A i \in DOMAIN runs :
          /\ (runs[i].state = "RUNNING" /\ runs'[i].state # "RUNNING"
              /\ lastWrite'.op \in {"LeaderTick", "Reconcile"}) =>
                /\ runs[i].cstate = "CONFIRMING"
                /\ runs[i].deadline # Null
                /\ runs[i].deadline <= now
          /\ (runs[i].state = "RUNNING" /\ runs[i].cstate = "CONFIRMING"
              /\ runs[i].deadline > now /\ runs' # runs
              /\ lastWrite'.op \in {"LeaderTick", "Reconcile"}) =>
                runs'[i] = runs[i]]_vars

\* The reconciler has orphaned a run that was CONFIRMING past its deadline.
C28_Witness ==
    \E i \in DOMAIN runs :
        /\ lastWrite = [op |-> "Reconcile", run |-> i, by |-> lastWrite.by,
                        epoch |-> lastWrite.epoch]
        /\ runs[i].state = "ORPHANED"
        /\ runs[i].error_summary # <<>>
        /\ runs[i].error_summary[Len(runs[i].error_summary)] = OrphanedMismatch

\* C29: a leader tick creates a run for exactly the slots of its window,
\* the minutes from floor(now, 1m) to floor(now + assign_ahead, 1m), that
\* the schedule grammar matches: {every_n_minutes: N} and {kind:
\* every_n_minutes, n: N} with N > 0 at minute mod N = 0; {kind: hourly,
\* minute: M} with 0 <= M <= 59 at minute M; {kind: daily, time: HH:MM} at
\* that hour and minute; weekdays as daily on Monday..Friday; {kind: weekly,
\* weekday: W, time: HH:MM} with 0 <= W <= 6 on that weekday at that time;
\* every other shape (unknown kind, N <= 0, a field out of range or not
\* parsable, a field left out, no dict) at no slot.
C29_MatcherAgreesWithGrammar ==
    [][(lastWrite'.op = "Materialize" /\ now' = now) =>
        LET sch == defs[1]
            num(key) == IF IsDict(sch) /\ key \in DOMAIN sch
                        THEN IntOf(sch[key]) ELSE NotLit
            time == IF IsDict(sch) /\ "time" \in DOMAIN sch
                       /\ sch["time"].t = "str" /\ Len(sch["time"].parts) = 2
                       /\ sch["time"].parts[1].ok /\ sch["time"].parts[2].ok
                       /\ sch["time"].parts[1].v \in 0..23
                       /\ sch["time"].parts[2].v \in 0..59
                    THEN [ok |-> TRUE, hh |-> sch["time"].parts[1].v,
                          mm |-> sch["time"].parts[2].v]
                    ELSE [ok |-> FALSE, hh |-> 0, mm |-> 0]
            kind == IF IsDict(sch) /\ "kind" \in DOMAIN sch THEN sch["kind"] ELSE ""
            minute(t) == (t \div 60) % 60
            hour(t) == (t \div 3600) % 24
            weekday(t) == (t \div 86400) % 7
            atTime(t) == time.ok /\ hour(t) = time.hh /\ minute(t) = time.mm
            grammar(t) ==
                IF ~IsDict(sch) THEN FALSE
                ELSE IF DOMAIN sch = {"every_n_minutes"}
                THEN num("every_n_minutes").ok /\ num("every_n_minutes").v > 0
                     /\ minute(t) % num("every_n_minutes").v = 0
                ELSE IF kind = "every_n_minutes"
                THEN num("n").ok /\ num("n").v > 0 /\ minute(t) % num("n").v = 0
                ELSE IF kind = "hourly"
                THEN num("minute").ok /\ num("minute").v \in 0..59
                     /\ minute(t) = num("minute").v
                ELSE IF kind = "daily" THEN atTime(t)
                ELSE IF kind = "weekdays" THEN weekday(t) \in 0..4 /\ atTime(t)
                ELSE IF kind = "weekly"
                THEN num("weekday").ok /\ num("weekday").v \in 0..6
                     /\ weekday(t) = num("weekday").v /\ atTime(t)
                ELSE FALSE
            window == {t \in (now - 59)..(now + AssignAheadSeconds) : t % 60 = 0}
        IN /\ \A t \in window :
                 RunExists(runs', 1, t) <=> (RunExists(runs, 1, t) \/ grammar(t))
           /\ \A i \in DOMAIN runs' :
                 i \notin DOMAIN runs =>
                     /\ runs'[i].scheduled_for \in window
                     /\ runs'[i].state = "PENDING"]_vars

\* C30: Phase D changes only runs that are ASSIGNED, not started, with
\* scheduled_for more than min_future after now, assigned_at not younger
\* than the cooldown and an active worker; it moves at most max_per_tick
\* runs in one tick, whatever value max_per_tick is set to; the first run it
\* moves goes to the worker the picker chooses with the run's own
\* assignment taken out of the load; and a moved run keeps state and
\* attempt and gets the new worker, assigned_at = now, the tick's
\* leader_epoch, one more version and one more line of summary.
C30_RebalanceBounded ==
    [][(lastWrite'.op = "LeaderTick" /\ runs' # runs /\ Cardinality(hb) > 1) =>
        LET kv == [L |-> leaderLock, S |-> subLock]
            pre == PhaseC(PhaseB(PhaseA(runs, now, hb), now, hb), now)
            moved == {i \in DOMAIN pre :
                        /\ pre[i].state = "ASSIGNED"
                        /\ runs'[i].state = "ASSIGNED"
                        /\ runs'[i].worker # pre[i].worker}
            first == CHOOSE i \in moved : \A j \in moved \ {i} :
                        \/ pre[i].assigned_at < pre[j].assigned_at
                        \/ pre[i].assigned_at = pre[j].assigned_at /\ i < j
        IN /\ Cardinality(moved) <= reload.max_per_tick
           /\ \A i \in DOMAIN pre :
                 (pre[i].state = "ASSIGNED" /\ i \notin moved) => runs'[i] = pre[i]
           /\ \A i \in moved :
                 /\ pre[i].started_at = Null
                 /\ pre[i].scheduled_for > now + RebalanceMinFuture
                 /\ pre[i].assigned_at <= now - RebalanceCooldown
                 /\ pre[i].worker \in hb
                 /\ runs'[i].worker \in hb
                 /\ runs'[i] = [pre[i] EXCEPT !.worker = runs'[i].worker,
                                              !.assigned_at = now,
                                              !.leader_epoch = lastWrite'.epoch,
                                              !.version = @ + 1,
                                              !.error_summary =
                                                  Append(@, RebalancedLine)]
           /\ moved # {} =>
                 runs'[first].worker =
                     PickWorker(hb,
                                [AssignedCounts(pre) EXCEPT
                                    ![pre[first].worker] = Max2(0, @ - 1)],
                                RunningCounts(pre), kv)]_vars

\* ---- C31
\* A StartJob handler of worker w that has moved its run to RUNNING and then
\* fails to open the log file or to spawn the child leaves the run FAILED
\* and the worker without a latch: no child process, no current_job_run_id,
\* load 0.
C31_StartupFailureLeavesNoLatch ==
    [][\A w \in Workers : \A h \in sj[w] :
        (h.pc = "spawn" /\ h \notin sj'[w] /\ child' = child) =>
            /\ runs'[h.run].state = "FAILED"
            /\ rt'[w].proc = None
            /\ rt'[w].cur = None
            /\ rt'[w].load = 0]_vars

\* ---- C32
\* Once the child of an accepted StartJob has exited, the worker eventually
\* has no latch: no child process, no current_job_run_id, load 0.
C32_LatchEventuallyCleared ==
    \A w \in Workers :
        (rt[w].sup.pc = "exited") ~>
            (rt[w].proc = None /\ rt[w].cur = None /\ rt[w].load = 0)

\* ---- C33
\* A step of worker w's coordinator (a KV command of its tick, or the
\* shutdown of its main loop) never changes a lock whose value is another
\* worker's id. A renewal leaves both locks as they are and keeps the role
\* flag exactly when the lock's value is w; shutdown leaves each lock as it
\* is or deletes it, and leaves the heartbeat keys alone.
C33_OnlyOwnLockTouched ==
    [][\A w \in Workers :
        (ck'[w] # ck[w] \/ co'[w] # co[w]) =>
            /\ leaderLock \notin {None, w} => leaderLock' = leaderLock
            /\ subLock \notin {None, w} => subLock' = subLock
            /\ ck[w].pc \in {"renewL", "renewS"} =>
                  leaderLock' = leaderLock /\ subLock' = subLock
            /\ (ck[w].pc = "renewL" /\ ck'[w].pc = "fin") =>
                  co'[w].isLeader = (leaderLock = w)
            /\ (ck[w].pc = "renewS" /\ ck'[w].pc # "idle") =>
                  co'[w].isSub = (subLock = w)
            /\ (ck[w].pc # "exited" /\ ck'[w].pc = "exited") =>
                  /\ hb' = hb
                  /\ leaderLock' \in {leaderLock, None}
                  /\ subLock' \in {subLock, None}]_vars

\* A leader whose renewal was refused: its tick has dropped the role flag
\* (the status it published before still says leader) and the leader lock
\* is another worker's.
C33_Witness ==
    \E w \in Workers :
        /\ ck[w].pc = "fin"
        /\ status[w].is_leader
        /\ ~co[w].isLeader
        /\ leaderLock \notin {None, w}

\* ---- C34
\* A published TickStatus with is_leader has a leader_epoch, that epoch is
\* one an INCR has returned, and no other worker's published status claims
\* leadership with the same epoch.
C34_LeaderEpochFromOwnIncr ==
    \A w \in Workers :
        status[w].is_leader =>
            /\ status[w].leader_epoch # None
            /\ status[w].leader_epoch \in issued
            /\ \A v \in Workers \ {w} :
                  status[v].is_leader =>
                      status[v].leader_epoch # status[w].leader_epoch

\* ---- C35
\* The main loop of a worker whose latest TickStatus says leader goes on
\* running: no step takes a leader's process from running to ended.
C35_LeaderKeepsItsMainLoop ==
    [][\A l \in Workers :
        (status[l].is_leader /\ ck[l].pc # "exited") =>
            ck'[l].pc # "exited"]_vars

\* ---- C36
\* Every stored JobRun whose continuation_state is CONFIRMING is in state
\* RUNNING.
C36_ConfirmingOnlyWhileRunning ==
    \A i \in DOMAIN runs : runs[i].cstate = "CONFIRMING" => runs[i].state = "RUNNING"

\* ---- C37
\* A RUNNING run whose worker has a live heartbeat and reports the run as
\* its current_job_run_id is not orphaned by any step: it is not left
\* ORPHANED, nor orphaned and assigned again within one leader tick.
C37_HeldRunNeverOrphaned ==
    [][\A i \in DOMAIN runs :
        (/\ runs[i].state = "RUNNING"
         /\ runs[i].worker \in hb
         /\ rt[runs[i].worker].cur = i) =>
            runs'[i].state \notin {"ORPHANED", "ASSIGNED"}]_vars

\* ---- C38
\* The dispatcher calls StartJob for a run, and a run becomes RUNNING, only
\* when its scheduled_for is not after the clock.
C38_NotStartedBeforeScheduledFor ==
    [][/\ \A w \in Workers : \A h \in sj'[w] \ sj[w] :
              h.pc = "mark" => runs[h.run].scheduled_for <= now
       /\ \A i \in DOMAIN runs :
              (runs[i].state # "RUNNING" /\ runs'[i].state = "RUNNING") =>
                  runs[i].scheduled_for <= now]_vars

\* ---- C39
\* No step lowers the leader_epoch stored on a JobRun.
C39_StoredEpochNeverDecreases ==
    [][\A i \in DOMAIN runs :
        runs[i].leader_epoch # Null =>
            runs'[i].leader_epoch >= runs[i].leader_epoch]_vars

\* ---- C40
\* No published TickStatus has is_leader and is_subleader both true, and a
\* worker that is leader between two ticks (its coordinator and its status
\* say so and the leader lock is its own) does not hold the subleader lock.
C40_LeaderIsNotSubleader ==
    \A w \in Workers :
        /\ ~(status[w].is_leader /\ status[w].is_subleader)
        /\ (/\ ck[w].pc = "idle"
            /\ co[w].isLeader
            /\ status[w].is_leader
            /\ leaderLock = w) => subLock # w

====
